---- MODULE Spec2Model ----
(***************************************************************************)
(* Control plane of the pulling agent: the agent lifecycle state machine   *)
(* (src/src/agent.py) and the distributed control coordinator              *)
(* (src/src/distributed_control.py).                                       *)
(*                                                                         *)
(* The program runs on one asyncio event loop, so every action below is    *)
(* the code a task executes between two suspension points (awaits).        *)
(***************************************************************************)
EXTENDS Integers, Sequences, FiniteSets, TLC

VARIABLES
    agent,          \* PullingAgent fields: state, events, markers, error counter,
                    \* the command read by the startup sync, and what the
                    \* control-file monitor read at its latest poll
    pc,             \* position of the run() task
    batch_state,    \* AgentState at the moment the latest process_batch() began
    cleanup_count,  \* number of times run()'s finally block was entered
    mongo_connected,\* MongoClientManager holds a client
    distributed,    \* config.enable_distributed_control
    watch_pc,       \* agent's cluster watch task (_distributed_watch_task)
    hb_pc,          \* _heartbeat_task
    mon_pc,         \* _control_monitor_task
    control_file,   \* raw text of /tmp/control/state ("absent" = no file)
    last_command,   \* _monitor_control_file's local last_command
    eff_pause,      \* pause() calls made while the state was Running
    eff_resume,     \* resume() calls made while the state was Paused
    record,         \* the global_control document of agent_control, or NoRecord
    rs_support,     \* the deployment is a replica set (change streams available)
    coord,          \* per coordinator: position in initialize(), _last_version
    call,           \* per coordinator: its set_global_command call in flight, result
    watch,          \* the watching coordinator: config, _watch_mode, task position,
                    \* retry_delay, and the number of change stream failures since
                    \* the stream last connected; a pending cancel() of the task,
                    \* the position of a stop_watching() call, how the task ended
    stream,         \* change events of the open change stream not yet consumed
    delivered,      \* records the watch has passed to the callback, in order
    last_poll,      \* _last_version before the latest poll and the record it read
    writes,         \* successful set_global_command calls: initial version of the
                    \* record and the versions returned, in order
    comp,           \* per SupervisedComponent: state, counters, _shutdown_event,
                    \* position of its _run_with_monitoring task
    sup,            \* Supervisor: _shutdown_event and position of _monitor_task
    mainpc,         \* position of main()
    stop_pc         \* per component: position of a stop() call

agentVars == <<agent, pc, batch_state, cleanup_count, mongo_connected,
               distributed, watch_pc, hb_pc, mon_pc, control_file, last_command>>
countVars == <<eff_pause, eff_resume>>
coordVars == <<record, rs_support, coord, call, watch, stream, delivered,
               last_poll, writes>>
supVars == <<comp, sup, mainpc, stop_pc>>
vars == <<agentVars, countVars, coordVars, supVars>>

(***************************************************************************)
(* Bounds                                                                  *)
(***************************************************************************)
MaxErrors == 1
MaxEffective == 3

(***************************************************************************)
(* AgentState and the health markers                                       *)
(***************************************************************************)
AgentState == {"running", "paused", "stopping", "stopped"}

\* the marker is written whenever ready is asked for
UpdateReadiness_ignores_state(a, ready) ==
    [a EXCEPT !.readiness = ready]

\* _update_readiness: the marker exists afterwards iff ready and state is RUNNING
UpdateReadiness(a, ready) ==
    [a EXCEPT !.readiness = (ready /\ a.state = "running")]

\* _update_liveness: the file holds state.value, or is removed
UpdateLiveness(a, healthy) ==
    [a EXCEPT !.liveness = IF healthy THEN a.state ELSE "absent"]

\* asyncio.Event.set() on _pause_event: wakes the waiter of a pending wait()
PauseEventSet(a) ==
    IF a.pause_event THEN a
    ELSE [a EXCEPT !.pause_event = TRUE,
                   !.pause_waiter = IF @ = "pending" THEN "resolved" ELSE @]

(***************************************************************************)
(* The three primitive transitions                                         *)
(***************************************************************************)
pause_toggles(a) ==
    IF a.state = "running"
    THEN [UpdateReadiness([a EXCEPT !.state = "paused"], FALSE)
             EXCEPT !.pause_event = FALSE]
    ELSE IF a.state = "paused"
    THEN PauseEventSet(UpdateReadiness([a EXCEPT !.state = "running"], TRUE))
    ELSE a

pause(a) ==
    IF a.state = "running"
    THEN [UpdateReadiness([a EXCEPT !.state = "paused"], FALSE)
             EXCEPT !.pause_event = FALSE]
    ELSE a

resume_unguarded(a) ==
    IF a.state # "running"
    THEN PauseEventSet(UpdateReadiness([a EXCEPT !.state = "running"], TRUE))
    ELSE a

resume(a) ==
    IF a.state = "paused"
    THEN PauseEventSet(UpdateReadiness([a EXCEPT !.state = "running"], TRUE))
    ELSE a

shutdown_unguarded(a) ==
    [UpdateReadiness([a EXCEPT !.state = "stopping"], FALSE)
        EXCEPT !.shutdown_event = TRUE]

shutdown(a) ==
    IF a.state \in {"stopping", "stopped"}
    THEN a
    ELSE [UpdateReadiness([a EXCEPT !.state = "stopping"], FALSE)
             EXCEPT !.shutdown_event = TRUE]

\* the callback resumes on "resume" and takes "running" for an unknown command
OnDistributedControlCommand_resume_only(a, command) ==
    CASE command = "pause" -> pause(a)
      [] command = "resume" -> resume(a)
      [] command = "shutdown" -> shutdown(a)
      [] OTHER -> a

\* the callback takes every command it does not know for pause
OnDistributedControlCommand_unknown_pauses(a, command) ==
    CASE command = "running" -> resume(a)
      [] command = "shutdown" -> shutdown(a)
      [] OTHER -> pause(a)

\* _on_distributed_control_command: the cluster watch callback
OnDistributedControlCommand(a, command) ==
    CASE command = "pause" -> pause(a)
      [] command = "running" -> resume(a)
      [] command = "shutdown" -> shutdown(a)
      [] OTHER -> a

\* _sync_initial_distributed_state, given the command read at startup
SyncInitialDistributedState(a, command) ==
    IF command = "pause" /\ a.state = "running" THEN pause(a)
    ELSE IF command = "running" /\ a.state = "paused" THEN resume(a)
    ELSE a

(***************************************************************************)
(* run(): the main loop                                                    *)
(***************************************************************************)
\* Top of `while not self._shutdown_event.is_set()` followed by
\* `await self._pause_event.wait()`, which returns at once when the event is set.
LoopTop(a) ==
    IF a.shutdown_event THEN "exit"
    ELSE IF a.pause_event THEN "batch"
    ELSE "pause_wait"

\* a batch error ends the loop
AfterBatch_error_breaks(a) ==
    IF a.shutdown_event \/ a.errors_count > 0 THEN "exit" ELSE "sleep"

\* The interruptible sleep entered after a batch: wait_for(shutdown_event.wait())
AfterBatch(a) ==
    IF a.shutdown_event THEN "exit" ELSE "sleep"

\* The run() task runs on to its next suspension point `nxt`, with agent fields a
\* and the watch/heartbeat tasks in positions wp/hb. "exit" enters the finally
\* block, which cancels the first background task and awaits it.
RunTo(a, nxt, wp, hb) ==
    /\ agent' = [a EXCEPT !.pause_waiter =
                     IF nxt = "pause_wait" THEN "pending" ELSE "none"]
    /\ pc' = IF nxt = "exit"
             THEN (IF distributed /\ wp = "watching"
                   THEN "cleanup_watch" ELSE "cleanup_hb")
             ELSE nxt
    /\ watch_pc' = IF nxt = "exit" /\ distributed /\ wp = "watching"
                   THEN "done" ELSE wp
    /\ hb_pc' = IF nxt = "exit" /\ ~(distributed /\ wp = "watching")
                THEN "done" ELSE hb
    /\ cleanup_count' = cleanup_count + (IF nxt = "exit" THEN 1 ELSE 0)
    /\ batch_state' = IF nxt = "batch" THEN a.state ELSE batch_state

\* Lines 170-180: start the background tasks, signal readiness, enter the loop
StartAndLoop(a, wp) ==
    LET a1 == UpdateReadiness(UpdateLiveness(a, TRUE), TRUE)
    IN  /\ RunTo(a1, LoopTop(a1), wp, "running")
        /\ mon_pc' = "polling"

\* mongo.connect() returned
RunConnected ==
    /\ pc = "connecting"
    /\ mongo_connected' = TRUE
    /\ IF distributed
       THEN /\ pc' = "sync"
            /\ UNCHANGED <<agent, batch_state, cleanup_count, watch_pc, hb_pc, mon_pc>>
       ELSE StartAndLoop(agent, watch_pc)
    /\ UNCHANGED <<distributed, control_file, last_command, countVars, coordVars,
                   supVars>>

\* initialize() and get_current_command() returned `command`; the field synced
\* keeps the command the startup sync read
RunSynced(command) ==
    /\ pc = "sync"
    /\ StartAndLoop(SyncInitialDistributedState(
                        [agent EXCEPT !.synced = command], command), "watching")
    /\ UNCHANGED <<mongo_connected, distributed, control_file, last_command, countVars, coordVars,
                   supVars>>

\* the wait on _pause_event returns: process_batch() begins
PauseWake ==
    /\ pc = "pause_wait"
    /\ agent.pause_waiter = "resolved"
    /\ RunTo(agent, "batch", watch_pc, hb_pc)
    /\ UNCHANGED <<mongo_connected, distributed, mon_pc, control_file,
                   last_command, countVars, coordVars,
                   supVars>>

\* process_batch() returned (ok) or raised; then the interruptible sleep begins
BatchDone(ok) ==
    /\ pc = "batch"
    /\ ok \/ agent.errors_count < MaxErrors
    /\ LET a1 == IF ok THEN agent
                 ELSE [agent EXCEPT !.errors_count = @ + 1]
       IN RunTo(a1, AfterBatch(a1), watch_pc, hb_pc)
    /\ UNCHANGED <<mongo_connected, distributed, mon_pc, control_file,
                   last_command, countVars, coordVars,
                   supVars>>

\* the sleep timed out: asyncio.TimeoutError, back to the top of the loop
SleepTimeout ==
    /\ pc = "sleep"
    /\ ~agent.shutdown_event
    /\ RunTo(agent, LoopTop(agent), watch_pc, hb_pc)
    /\ UNCHANGED <<mongo_connected, distributed, mon_pc, control_file,
                   last_command, countVars, coordVars,
                   supVars>>

\* the sleep was interrupted by _shutdown_event: break
SleepShutdown ==
    /\ pc = "sleep"
    /\ agent.shutdown_event
    /\ RunTo(agent, "exit", watch_pc, hb_pc)
    /\ UNCHANGED <<mongo_connected, distributed, mon_pc, control_file,
                   last_command, countVars, coordVars,
                   supVars>>

\* finally: stop_watching() returned; cancel the heartbeat task and await it
CleanupWatchStopped ==
    /\ pc = "cleanup_watch"
    /\ pc' = "cleanup_hb"
    /\ hb_pc' = "done"
    /\ UNCHANGED <<agent, batch_state, cleanup_count, mongo_connected, distributed,
                   watch_pc, mon_pc, control_file, last_command, countVars, coordVars,
                   supVars>>

\* finally: the heartbeat task ended; cancel the control monitor and await it
CleanupHeartbeatStopped ==
    /\ pc = "cleanup_hb"
    /\ pc' = "cleanup_mon"
    /\ mon_pc' = "done"
    /\ UNCHANGED <<agent, batch_state, cleanup_count, mongo_connected, distributed,
                   watch_pc, hb_pc, control_file, last_command, countVars, coordVars,
                   supVars>>

\* finally: markers cleared, connection closed, state = STOPPED
CleanupFinish ==
    /\ pc = "cleanup_mon"
    /\ agent' = [UpdateLiveness(UpdateReadiness(agent, FALSE), FALSE)
                    EXCEPT !.state = "stopped"]
    /\ mongo_connected' = FALSE
    /\ pc' = "done"
    /\ UNCHANGED <<batch_state, cleanup_count, distributed, watch_pc, hb_pc, mon_pc,
                   control_file, last_command, countVars, coordVars,
                   supVars>>

(***************************************************************************)
(* Control sources                                                         *)
(***************************************************************************)
\* SIGUSR1 or POST /agent/pause
PauseCall ==
    /\ agent' = pause(agent)
    /\ UNCHANGED <<pc, batch_state, cleanup_count, mongo_connected, distributed,
                   watch_pc, hb_pc, mon_pc, control_file, last_command, countVars, coordVars,
                   supVars>>

\* SIGUSR2 or POST /agent/resume
ResumeCall ==
    /\ agent' = resume(agent)
    /\ UNCHANGED <<pc, batch_state, cleanup_count, mongo_connected, distributed,
                   watch_pc, hb_pc, mon_pc, control_file, last_command, countVars, coordVars,
                   supVars>>

\* SIGTERM/SIGINT handler task or POST /agent/shutdown
ShutdownCall ==
    /\ agent' = shutdown(agent)
    /\ UNCHANGED <<pc, batch_state, cleanup_count, mongo_connected, distributed,
                   watch_pc, hb_pc, mon_pc, control_file, last_command, countVars, coordVars,
                   supVars>>

ClusterCommands == {"pause", "running", "shutdown", "restart"}

\* the cluster watch task delivers a command to the agent's callback
ClusterCallback(command) ==
    /\ watch_pc = "watching"
    /\ agent' = OnDistributedControlCommand(agent, command)
    /\ UNCHANGED <<pc, batch_state, cleanup_count, mongo_connected, distributed,
                   watch_pc, hb_pc, mon_pc, control_file, last_command, countVars, coordVars,
                   supVars>>

\* _update_heartbeat: rewrite the liveness marker
Heartbeat ==
    /\ hb_pc = "running"
    /\ agent' = UpdateLiveness(agent, TRUE)
    /\ UNCHANGED <<pc, batch_state, cleanup_count, mongo_connected, distributed,
                   watch_pc, hb_pc, mon_pc, control_file, last_command, countVars, coordVars,
                   supVars>>

ControlFileTexts == {"absent", "pause", "PAUSE ", "resume", "shutdown", "running", "stop"}

\* read_text().strip().lower()
StripLower(raw) ==
    IF raw = "PAUSE " THEN "pause" ELSE raw

\* an operator writes or removes the control file
WriteControlFile(raw) ==
    /\ control_file # raw
    /\ control_file' = raw
    /\ UNCHANGED <<agent, pc, batch_state, cleanup_count, mongo_connected, distributed,
                   watch_pc, hb_pc, mon_pc, last_command, countVars, coordVars,
                   supVars>>

\* the monitor applies the file's command at every poll, applied before or not
MonitorIteration_no_dedup(a, lc, text) ==
    LET command == StripLower(text)
    IN  IF text = "absent"
        THEN [agent |-> a, last_command |-> lc, mon_pc |-> "polling"]
        ELSE IF command = "pause" /\ a.state = "running"
        THEN [agent |-> pause(a), last_command |-> command, mon_pc |-> "polling"]
        ELSE IF command = "resume" /\ a.state = "paused"
        THEN [agent |-> resume(a), last_command |-> command, mon_pc |-> "polling"]
        ELSE IF command = "shutdown"
        THEN [agent |-> shutdown(a), last_command |-> lc, mon_pc |-> "done"]
        ELSE IF command = "running" /\ a.state # "running"
        THEN [agent |-> resume(a), last_command |-> command, mon_pc |-> "polling"]
        ELSE [agent |-> a, last_command |-> lc, mon_pc |-> "polling"]

\* the body of the loop of _monitor_control_file for agent fields a, the local
\* last_command lc and the file content text: the agent fields, last_command
\* and the position of the monitor task afterwards
MonitorIteration(a, lc, text) ==
    LET command == StripLower(text)
    IN  IF text = "absent" \/ command = lc
        THEN [agent |-> a, last_command |-> lc, mon_pc |-> "polling"]
        ELSE IF command = "pause" /\ a.state = "running"
        THEN [agent |-> pause(a), last_command |-> command, mon_pc |-> "polling"]
        ELSE IF command = "resume" /\ a.state = "paused"
        THEN [agent |-> resume(a), last_command |-> command, mon_pc |-> "polling"]
        ELSE IF command = "shutdown"
        THEN [agent |-> shutdown(a), last_command |-> lc, mon_pc |-> "done"]
        ELSE IF command = "running" /\ a.state # "running"
        THEN [agent |-> resume(a), last_command |-> command, mon_pc |-> "polling"]
        ELSE [agent |-> a, last_command |-> lc, mon_pc |-> "polling"]

\* one iteration of _monitor_control_file
MonitorPoll ==
    /\ mon_pc = "polling"
    /\ LET r == MonitorIteration(agent, last_command, control_file)
       IN  /\ agent' = r.agent
           /\ last_command' = r.last_command
           /\ mon_pc' = r.mon_pc
    /\ UNCHANGED <<pc, batch_state, cleanup_count, mongo_connected, distributed,
                   watch_pc, hb_pc, control_file, countVars, coordVars,
                   supVars>>

\* the state in which the command is one that pause() or resume() acts on
Applicable(command, state) ==
    \/ command = "pause" /\ state = "running"
    \/ command \in {"resume", "running"} /\ state = "paused"

\* one iteration of _monitor_control_file; file_read keeps what this poll read,
\* file_applied the file content from which a poll last changed the agent
\* state, and file_skipped whether this poll left alone a content that a poll
\* had applied before, in a state the command acts on
MonitorPollRead ==
    /\ mon_pc = "polling"
    /\ LET r == MonitorIteration(agent, last_command, control_file)
           acted == r.agent.state # agent.state
       IN  /\ agent' = [r.agent EXCEPT
                            !.file_read = StripLower(control_file),
                            !.file_applied = IF acted THEN control_file ELSE @,
                            !.file_skipped =
                                /\ ~acted
                                /\ control_file = agent.file_applied
                                /\ Applicable(StripLower(control_file), agent.state)]
           /\ last_command' = r.last_command
           /\ mon_pc' = r.mon_pc
    /\ UNCHANGED <<pc, batch_state, cleanup_count, mongo_connected, distributed,
                   watch_pc, hb_pc, control_file, countVars, coordVars,
                   supVars>>

(***************************************************************************)
(* DistributedControlCoordinator and the shared agent_control record       *)
(***************************************************************************)
MaxWrites == 3
\* consecutive change stream failures followed
MaxFailures == 7

Coords == {"c1", "c2"}
\* the coordinator whose watch task is modelled; the others only initialize
\* and issue cluster commands
Watcher == "c1"

NoRecord == [command |-> "none", version |-> 0, reason |-> "", updated_by |-> ""]
Exists(r) == r.version > 0

\* records a previous run of the cluster can have left in the store
ExistingRecords ==
    {[command |-> "pause", version |-> 2, reason |-> "maintenance",
      updated_by |-> "ops"]}

\* an initial document whose version starts at 0
InitialDocument_version_zero ==
    [command |-> "running", version |-> 0, reason |-> "Initial state",
     updated_by |-> "system"]

\* initialize(): the document inserted when none exists
InitialDocument ==
    [command |-> "running", version |-> 1, reason |-> "Initial state",
     updated_by |-> "system"]

valid_commands_with_resume == {"running", "pause", "shutdown", "resume"}

valid_commands == {"running", "pause", "shutdown"}

\* arguments of set_global_command calls (reason defaults to "", updated_by to "api")
Requests ==
    {[command |-> c, reason |-> "maintenance", updated_by |-> "ops"] :
        c \in {"pause", "shutdown", "resume"}}
    \cup {[command |-> "running", reason |-> "", updated_by |-> "api"]}
NoRequest == [command |-> "none", reason |-> "", updated_by |-> ""]

Min(a, b) == IF a <= b THEN a ELSE b

\* find_one_and_update without the $inc of the version
find_one_and_update_set_only(rec, req) ==
    [command |-> req.command, version |-> rec.version,
     reason |-> req.reason, updated_by |-> req.updated_by]

\* find_one_and_update({"$inc": {"version": 1}, "$set": {...}}, return_document=True)
\* on the existing document: one atomic server-side operation
find_one_and_update(rec, req) ==
    [command |-> req.command, version |-> rec.version + 1,
     reason |-> req.reason, updated_by |-> req.updated_by]

\* a change event is queued for the open change stream; doc is the document as
\* the change left it
Notify(doc) ==
    IF watch.pc = "streaming" THEN Append(stream, doc) ELSE stream

\* initialize(): find_one returned
InitFind(c) ==
    /\ coord[c].ipc \in {"start", "done", "failed"}
    /\ c = Watcher => watch.pc = "none"
    /\ coord' = [coord EXCEPT ![c] =
                    IF Exists(record)
                    THEN [ipc |-> "done", last_version |-> record.version]
                    ELSE [@ EXCEPT !.ipc = "insert"]]
    /\ UNCHANGED <<record, rs_support, call, watch, stream, delivered, last_poll,
                   writes, agentVars, countVars, supVars>>

\* initialize(): insert_one returned, or raised DuplicateKeyError on _id
InitInsert(c) ==
    /\ coord[c].ipc = "insert"
    /\ IF Exists(record)
       THEN /\ coord' = [coord EXCEPT ![c].ipc = "failed"]
            /\ UNCHANGED <<record, stream, writes>>
       ELSE /\ record' = InitialDocument
            /\ coord' = [coord EXCEPT ![c] = [ipc |-> "done", last_version |-> 1]]
            /\ stream' = Notify(InitialDocument)
            /\ writes' = [writes EXCEPT !.initial = 1]
    /\ UNCHANGED <<rs_support, call, watch, delivered, last_poll, agentVars, countVars, supVars>>

\* find_one with a projection that leaves out the reason
get_current_command_without_reason ==
    [record EXCEPT !.reason = ""]

\* get_current_command(): find_one({"_id": "global_control"}); NoRecord is None
get_current_command ==
    record

InFlight == {c \in Coords : call[c].st = "inflight"}

\* set_global_command(command, reason, updated_by) up to its await: validation;
\* `before` is the stored version when the call is made
SetCall(c, req) ==
    /\ call[c].st = "idle"
    /\ Len(writes.returned) + Cardinality(InFlight) < MaxWrites
    /\ call' = [call EXCEPT ![c] =
                  IF req.command \notin valid_commands
                  THEN [st |-> "idle", req |-> req, res |-> "ValueError",
                        before |-> 0]
                  ELSE [st |-> "inflight", req |-> req, res |-> "pending",
                        before |-> record.version]]
    /\ UNCHANGED <<record, rs_support, coord, watch, stream, delivered, last_poll,
                   writes, agentVars, countVars, supVars>>

\* the server applies find_one_and_update; set_global_command returns the result
ServerUpdate(c) ==
    /\ call[c].st = "inflight"
    /\ IF Exists(record)
       THEN LET result == find_one_and_update(record, call[c].req)
            IN  /\ record' = result
                /\ call' = [call EXCEPT ![c] =
                              [st |-> "idle", req |-> NoRequest, res |-> "ok",
                               before |-> 0]]
                /\ writes' = [writes EXCEPT !.returned = Append(@, result.version)]
                /\ stream' = Notify(result)
       ELSE /\ call' = [call EXCEPT ![c] =
                          [st |-> "idle", req |-> NoRequest, res |-> "None",
                           before |-> 0]]
            /\ UNCHANGED <<record, writes, stream>>
    /\ UNCHANGED <<rs_support, coord, watch, delivered, last_poll, agentVars, countVars, supVars>>

\* the record is edited in the store without set_global_command: the command
\* changes and the version stays
DirectEdit(c) ==
    /\ Exists(record)
    /\ Len(stream) < MaxWrites
    /\ record.command # c
    /\ record' = [record EXCEPT !.command = c]
    /\ stream' = Notify([record EXCEPT !.command = c])
    /\ UNCHANGED <<rs_support, coord, call, watch, delivered, last_poll, writes,
                   agentVars, countVars, supVars>>

\* start_watching(): the task begins watch_for_changes
StartWatching ==
    /\ watch.pc = "none"
    /\ coord[Watcher].ipc = "done"
    /\ watch' = IF watch.enable_change_streams
                THEN [watch EXCEPT !.pc = "probe"]
                ELSE [watch EXCEPT !.mode = "polling", !.pc = "poll",
                                   !.retry_delay = 1]
    /\ UNCHANGED <<record, rs_support, coord, call, stream, delivered, last_poll,
                   writes, agentVars, countVars, supVars>>

\* the mode is re-decided when a transport error ends the stream: the retry
\* falls back to polling
StreamError_falls_back ==
    /\ watch.pc \in {"stream_open", "streaming"}
    /\ watch' = [watch EXCEPT !.mode = "polling", !.pc = "backoff_poll"]
    /\ stream' = <<>>
    /\ UNCHANGED <<record, rs_support, coord, call, delivered, last_poll, writes,
                   agentVars, countVars, supVars>>

\* _check_change_streams_support() returned: True only on a replica set
ProbeDone(supported) ==
    /\ watch.pc = "probe"
    /\ supported => rs_support
    /\ watch' = IF supported
                THEN [watch EXCEPT !.mode = "change_streams", !.pc = "stream_open",
                                   !.retry_delay = 1]
                ELSE [watch EXCEPT !.mode = "polling", !.pc = "poll",
                                   !.retry_delay = 1]
    /\ UNCHANGED <<record, rs_support, coord, call, stream, delivered, last_poll,
                   writes, agentVars, countVars, supVars>>

max_retry_delay == 30

\* no poll has completed since the watch task last woke up
NoPoll == [before |-> 0, version |-> 0, command |-> "none"]

\* _watch_with_change_streams: the change stream opened
StreamOpen ==
    /\ watch.pc = "stream_open"
    /\ watch' = [watch EXCEPT !.pc = "streaming", !.retry_delay = 1,
                              !.failures = 0]
    /\ stream' = <<>>
    /\ UNCHANGED <<record, rs_support, coord, call, delivered, last_poll, writes,
                   agentVars, countVars, supVars>>

\* callback(command, full_doc): what the callback has been invoked with
Deliver(doc, via) ==
    Append(delivered, [command |-> doc.command, version |-> doc.version, via |-> via])

\* full_document="updateLookup": the fullDocument of a change event is the
\* document as the server finds it when it looks it up, which is the document
\* the change left or any later one up to the current document
LookedUp ==
    {stream[i] : i \in 1..Len(stream)} \cup {record}

\* _watch_with_change_streams: one change event is read and the callback is
\* invoked with its fullDocument
StreamNextWatch(full_doc) ==
    /\ watch.pc = "streaming"
    /\ stream # <<>>
    /\ stream' = Tail(stream)
    /\ delivered' = Deliver(full_doc, "push")
    /\ UNCHANGED <<record, rs_support, coord, call, watch, last_poll, writes>>

\* the same with a callback that is not the agent's
StreamNext ==
    /\ \E full_doc \in LookedUp : StreamNextWatch(full_doc)
    /\ UNCHANGED <<agentVars, countVars, supVars>>

\* PyMongoError while opening or reading the change stream: sleep(retry_delay)
StreamError ==
    /\ watch.pc \in {"stream_open", "streaming"}
    /\ watch.failures < MaxFailures
    /\ watch' = [watch EXCEPT !.pc = "backoff_stream", !.failures = @ + 1]
    /\ stream' = <<>>
    /\ UNCHANGED <<record, rs_support, coord, call, delivered, last_poll, writes,
                   agentVars, countVars, supVars>>

\* _last_version advanced by one instead of to the version read
NextSeen_by_one(current) ==
    coord[Watcher].last_version + 1

\* `self._last_version = current["version"]`
NextSeen(current) ==
    current.version

\* the poll delivers whenever the record exists
poll_no_version_test(current) ==
    Exists(current)

\* _watch_with_polling: `current and current["version"] > self._last_version`
VersionChanged(current) ==
    Exists(current) /\ current.version > coord[Watcher].last_version

\* _watch_with_polling: get_current_command() returned, the callback is invoked
\* when the version test passes; then sleep(polling_interval)
PollReadWatch ==
    /\ watch.pc = "poll"
    /\ last_poll' = [before |-> coord[Watcher].last_version,
                     version |-> get_current_command.version,
                     command |-> get_current_command.command]
    /\ IF VersionChanged(get_current_command)
       THEN /\ coord' = [coord EXCEPT ![Watcher].last_version =
                                        NextSeen(get_current_command)]
            /\ delivered' = Deliver(get_current_command, "poll")
            /\ watch' = [watch EXCEPT !.pc = "poll_sleep", !.retry_delay = 1]
       ELSE /\ watch' = [watch EXCEPT !.pc = "poll_sleep"]
            /\ UNCHANGED <<coord, delivered>>
    /\ UNCHANGED <<record, rs_support, call, stream, writes>>

\* the same with a callback that is not the agent's
PollRead ==
    /\ PollReadWatch
    /\ UNCHANGED <<agentVars, countVars, supVars>>

\* a PyMongoError ends the polling task instead of being retried
PollError_ends_watch ==
    /\ watch.pc = "poll"
    /\ watch' = [watch EXCEPT !.pc = "none"]
    /\ UNCHANGED <<record, rs_support, coord, call, stream, delivered, last_poll,
                   writes, agentVars, countVars, supVars>>

\* _watch_with_polling: get_current_command() raised PyMongoError: sleep(retry_delay)
PollError ==
    /\ watch.pc = "poll"
    /\ watch' = [watch EXCEPT !.pc = "backoff_poll"]
    /\ UNCHANGED <<record, rs_support, coord, call, stream, delivered, last_poll,
                   writes, agentVars, countVars, supVars>>

\* the polling interval elapsed
PollSleepWake ==
    /\ watch.pc = "poll_sleep"
    /\ watch' = [watch EXCEPT !.pc = "poll"]
    /\ last_poll' = NoPoll
    /\ UNCHANGED <<record, rs_support, coord, call, stream, delivered,
                   writes, agentVars, countVars, supVars>>

\* the delay doubles without the cap
BackoffWake_uncapped ==
    /\ watch.pc \in {"backoff_stream", "backoff_poll"}
    /\ watch' = [watch EXCEPT
                    !.pc = IF @ = "backoff_stream" THEN "stream_open" ELSE "poll",
                    !.retry_delay = @ * 2]
    /\ UNCHANGED <<record, rs_support, coord, call, stream, delivered, last_poll,
                   writes, agentVars, countVars, supVars>>

\* the retry sleep elapsed: retry_delay = min(retry_delay * 2, max_retry_delay)
BackoffWake ==
    /\ watch.pc \in {"backoff_stream", "backoff_poll"}
    /\ watch' = [watch EXCEPT
                    !.pc = IF @ = "backoff_stream" THEN "stream_open" ELSE "poll",
                    !.retry_delay = Min(@ * 2, max_retry_delay)]
    /\ UNCHANGED <<record, rs_support, coord, call, stream, delivered, last_poll,
                   writes, agentVars, countVars, supVars>>

\* stop_watching(): the task is cancelled at its await and ends (its local
\* retry_delay goes with it)
StopWatching ==
    /\ watch.pc # "none"
    /\ watch' = [watch EXCEPT !.pc = "none", !.retry_delay = 1, !.failures = 0]
    /\ stream' = <<>>
    /\ last_poll' = NoPoll
    /\ UNCHANGED <<record, rs_support, coord, call, delivered, writes,
                   agentVars, countVars, supVars>>

\* the agent's callback runs inside the watch task: pause() and resume() are
\* synchronous and shutdown() has no await
CallbackRuns(command) ==
    /\ agent' = OnDistributedControlCommand(agent, command)
    /\ UNCHANGED <<pc, batch_state, cleanup_count, mongo_connected, distributed,
                   watch_pc, hb_pc, mon_pc, control_file, last_command>>

\* the agent's watch task in poll mode: one read, the callback into the agent
AgentPollRead ==
    /\ watch_pc = "watching"
    /\ PollReadWatch
    /\ IF VersionChanged(get_current_command)
       THEN CallbackRuns(get_current_command.command)
       ELSE UNCHANGED agentVars
    /\ UNCHANGED <<countVars, supVars>>

\* the agent's watch task in push mode: one change event, the callback into the
\* agent
AgentStreamNext ==
    /\ watch_pc = "watching"
    /\ \E full_doc \in LookedUp :
          /\ StreamNextWatch(full_doc)
          /\ CallbackRuns(full_doc.command)
    /\ UNCHANGED <<countVars, supVars>>

\* stop_watching() up to `await self._watch_task`: with no task, or a task that
\* is done, it returns at once; otherwise it cancels the task and awaits it
StopWatchingBegin ==
    /\ watch.stop = "idle"
    /\ watch' = IF watch.pc = "none"
                THEN [watch EXCEPT !.stop = "returned"]
                ELSE [watch EXCEPT !.cancel_req = TRUE, !.stop = "awaiting"]
    /\ UNCHANGED <<record, rs_support, coord, call, stream, delivered, last_poll,
                   writes, agentVars, countVars, supVars>>

\* a CancelledError caught in the retry sleep sends the task back into its loop
CancelledAt_retry_goes_on(p) ==
    CASE p = "backoff_stream" -> [pc |-> "stream_open", ended |-> "no"]
      [] p = "backoff_poll" -> [pc |-> "poll", ended |-> "no"]
      [] p \in {"stream_open", "streaming", "poll", "poll_sleep"} ->
            [pc |-> "none", ended |-> "returned"]
      [] OTHER -> [pc |-> "none", ended |-> "cancelled"]

\* what the CancelledError does at the await the task is suspended in: inside the
\* try of either loop `except asyncio.CancelledError: break` ends the task with a
\* normal return; in the retry sleeps, which are inside the except handlers, and
\* in the capability probe it propagates and the task ends cancelled
CancelledAt(p) ==
    IF p \in {"stream_open", "streaming", "poll", "poll_sleep"}
    THEN [pc |-> "none", ended |-> "returned"]
    ELSE [pc |-> "none", ended |-> "cancelled"]

\* the event loop resumes the cancelled watch task: CancelledError is thrown at
\* its await
WatchCancelled ==
    /\ watch.cancel_req
    /\ watch.pc # "none"
    /\ watch' = [watch EXCEPT !.cancel_req = FALSE,
                              !.pc = CancelledAt(watch.pc).pc,
                              !.ended = CancelledAt(watch.pc).ended]
    /\ stream' = <<>>
    /\ UNCHANGED <<record, rs_support, coord, call, delivered, last_poll, writes,
                   agentVars, countVars, supVars>>

\* stop_watching(): the awaited task is done (its CancelledError is passed over)
StopWatchingReturn ==
    /\ watch.stop = "awaiting"
    /\ watch.pc = "none"
    /\ watch' = [watch EXCEPT !.stop = "returned"]
    /\ UNCHANGED <<record, rs_support, coord, call, stream, delivered, last_poll,
                   writes, agentVars, countVars, supVars>>

InitCoordIdle ==
    /\ coord = [c \in Coords |-> [ipc |-> "start", last_version |-> 0]]
    /\ call = [c \in Coords |->
                 [st |-> "idle", req |-> NoRequest, res |-> "none", before |-> 0]]
    /\ stream = <<>>
    /\ delivered = <<>>
    /\ last_poll = NoPoll
    /\ writes = [initial |-> record.version, returned |-> <<>>]

(***************************************************************************)
(* SupervisedComponent and Supervisor (src/src/supervisor.py), main()      *)
(***************************************************************************)
max_restarts == 3
\* the longest backoff wait (restart_backoff_max in the configuration), chosen
\* so that the restarts allowed by max_restarts reach it
max_backoff == 3
initial_backoff == 1
backoff_multiplier == 2

\* the components main() registers
Comps == {"agent", "api-server"}

\* a task that is done: returned, raised RuntimeError, or was cancelled
Finished == {"ok", "fatal", "cancelled"}

\* SupervisedComponent.__init__; task "none" is `_task is None`, runs counts the
\* invocations of component_func, wait_time is the timeout of the latest
\* backoff wait
NewComponent ==
    [state |-> "stopped", restart_count |-> 0, crash_count |-> 0,
     current_backoff |-> initial_backoff, wait_time |-> 0,
     shutdown_event |-> FALSE,
     task |-> "none", cancel_req |-> FALSE, runs |-> 0]

\* start()
start(k) ==
    IF k.task # "none" THEN k
    ELSE [k EXCEPT !.shutdown_event = FALSE, !.task = "created"]

\* `while not self._shutdown_event.is_set()`: STARTING, RUNNING, then
\* `await self.component_func()`; when the event is set the loop is left
EnterLoop(k) ==
    IF k.shutdown_event THEN [k EXCEPT !.task = "ok"]
    ELSE [k EXCEPT !.state = "running", !.runs = @ + 1, !.task = "run"]

\* the limit test lets one more restart through
Crashed_limit_off_by_one(k) ==
    LET k1 == [k EXCEPT !.crash_count = @ + 1]
    IN  IF k.restart_count > max_restarts
        THEN [k1 EXCEPT !.state = "stopped", !.task = "fatal"]
        ELSE [k1 EXCEPT !.state = "restarting", !.task = "backoff",
                        !.wait_time = Min(k.current_backoff, max_backoff)]

\* the backoff wait is not capped
Crashed_wait_uncapped(k) ==
    LET k1 == [k EXCEPT !.crash_count = @ + 1]
    IN  IF k.restart_count >= max_restarts
        THEN [k1 EXCEPT !.state = "stopped", !.task = "fatal"]
        ELSE [k1 EXCEPT !.state = "restarting", !.task = "backoff",
                        !.wait_time = k.current_backoff]

\* `except Exception`: count the crash, CRASHED, then either STOPPED and
\* RuntimeError, or RESTARTING and the interruptible backoff wait of
\* min(current_backoff, max_backoff)
Crashed(k) ==
    LET k1 == [k EXCEPT !.crash_count = @ + 1]
    IN  IF k.restart_count >= max_restarts
        THEN [k1 EXCEPT !.state = "stopped", !.task = "fatal"]
        ELSE [k1 EXCEPT !.state = "restarting", !.task = "backoff",
                        !.wait_time = Min(k.current_backoff, max_backoff)]

\* a clean return restarts the component
Returned_restarts(k) ==
    EnterLoop([k EXCEPT !.restart_count = @ + 1])

\* component_func() returned: STOPPED, break
Returned(k) ==
    [k EXCEPT !.state = "stopped", !.task = "ok"]

\* the restart is not counted
Restarted_without_count(k) ==
    EnterLoop([k EXCEPT !.current_backoff = @ * backoff_multiplier])

\* a restart clears the crash count
Restarted_clears_crash_count(k) ==
    EnterLoop([k EXCEPT !.current_backoff = @ * backoff_multiplier,
                        !.restart_count = @ + 1,
                        !.crash_count = 0])

\* the backoff timeout: `current_backoff *= multiplier; restart_count += 1`,
\* then the next iteration of the loop
Restarted(k) ==
    EnterLoop([k EXCEPT !.current_backoff = @ * backoff_multiplier,
                        !.restart_count = @ + 1])

\* component.start() called on its own
CompStart(c) ==
    /\ comp[c].task = "none"
    /\ comp' = [comp EXCEPT ![c] = start(@)]
    /\ UNCHANGED <<sup, mainpc, stop_pc, agentVars, countVars, coordVars>>

\* the task's first step: cancelled before it ran, or into the loop
TaskBegin(c) ==
    /\ comp[c].task = "created"
    /\ comp' = [comp EXCEPT ![c] =
                  IF @.cancel_req
                  THEN [@ EXCEPT !.task = "cancelled", !.cancel_req = FALSE]
                  ELSE EnterLoop([@ EXCEPT !.current_backoff = initial_backoff])]
    /\ UNCHANGED <<sup, mainpc, stop_pc, agentVars, countVars, coordVars>>

\* component_func() raised an Exception
RunCrash(c) ==
    /\ comp[c].task = "run" /\ ~comp[c].cancel_req
    /\ comp' = [comp EXCEPT ![c] = Crashed(@)]
    /\ UNCHANGED <<sup, mainpc, stop_pc, agentVars, countVars, coordVars>>

\* component_func() returned
RunReturn(c) ==
    /\ comp[c].task = "run" /\ ~comp[c].cancel_req
    /\ comp' = [comp EXCEPT ![c] = Returned(@)]
    /\ UNCHANGED <<sup, mainpc, stop_pc, agentVars, countVars, coordVars>>

\* what a cancelled component_func() can do with the CancelledError thrown into
\* it: let it through, swallow it and return, or raise from its cleanup
CancelOutcomes == {"cancelled", "return", "crash"}

\* the task was cancelled while awaiting component_func()
RunCancelled(c, outcome) ==
    /\ comp[c].task = "run" /\ comp[c].cancel_req
    /\ LET k == [comp[c] EXCEPT !.cancel_req = FALSE]
       IN  comp' = [comp EXCEPT ![c] =
                      CASE outcome = "cancelled" ->
                              [k EXCEPT !.state = "stopped", !.task = "cancelled"]
                        [] outcome = "return" -> Returned(k)
                        [] outcome = "crash" -> Crashed(k)]
    /\ UNCHANGED <<sup, mainpc, stop_pc, agentVars, countVars, coordVars>>

\* the backoff timeout restarts the component whether or not shutdown was asked
BackoffTimeout_ignores_shutdown(c) ==
    /\ comp[c].task = "backoff"
    /\ comp' = [comp EXCEPT ![c] =
                  EnterLoop([@ EXCEPT !.shutdown_event = FALSE,
                                      !.cancel_req = FALSE,
                                      !.restart_count = @ + 1])]
    /\ UNCHANGED <<sup, mainpc, stop_pc, agentVars, countVars, coordVars>>

\* the backoff wait timed out: restart
BackoffTimeout(c) ==
    /\ comp[c].task = "backoff"
    /\ ~comp[c].shutdown_event /\ ~comp[c].cancel_req
    /\ comp' = [comp EXCEPT ![c] = Restarted(@)]
    /\ UNCHANGED <<sup, mainpc, stop_pc, agentVars, countVars, coordVars>>

\* _shutdown_event was set during the backoff wait. The wait is outside the
\* try block whose handler sets STOPPED on cancellation: when wait_for returns
\* the event's result the code sets STOPPED and breaks; when the cancellation
\* that came with the event gets through, the task ends with the state as it is.
BackoffShutdown(c, through) ==
    /\ comp[c].task = "backoff" /\ comp[c].shutdown_event
    /\ through => comp[c].cancel_req
    /\ comp' = [comp EXCEPT ![c] =
                  IF through
                  THEN [@ EXCEPT !.task = "cancelled", !.cancel_req = FALSE]
                  ELSE [@ EXCEPT !.state = "stopped", !.task = "ok",
                                 !.cancel_req = FALSE]]
    /\ UNCHANGED <<sup, mainpc, stop_pc, agentVars, countVars, coordVars>>

\* stop() that does not wait for the task
StopBegin_without_await(c) ==
    /\ comp' = [comp EXCEPT ![c] =
                  [@ EXCEPT !.shutdown_event = TRUE, !.state = "stopped",
                            !.cancel_req =
                                (comp[c].task \notin Finished \cup {"none"})]]
    /\ stop_pc' = [stop_pc EXCEPT ![c] = "returned"]

\* stop() up to `await self._task`: set the event, cancel the task; with no task
\* or a finished one it runs on to `self.state = STOPPED`
StopBegin(c) ==
    LET k == [comp[c] EXCEPT !.shutdown_event = TRUE]
    IN  IF k.task = "none" \/ k.task \in Finished
        THEN /\ comp' = [comp EXCEPT ![c] = [k EXCEPT !.state = "stopped"]]
             /\ stop_pc' = [stop_pc EXCEPT ![c] = "returned"]
        ELSE /\ comp' = [comp EXCEPT ![c] = [k EXCEPT !.cancel_req = TRUE]]
             /\ stop_pc' = [stop_pc EXCEPT ![c] = "awaiting"]

\* component.stop() called on its own
StopCall(c) ==
    /\ stop_pc[c] # "awaiting"
    /\ StopBegin(c)
    /\ UNCHANGED <<sup, mainpc, agentVars, countVars, coordVars>>

\* stop(): the awaited task is done; `self.state = STOPPED`
StopReturn(c) ==
    /\ stop_pc[c] = "awaiting"
    /\ comp[c].task \in Finished
    /\ comp' = [comp EXCEPT ![c].state = "stopped"]
    /\ stop_pc' = [stop_pc EXCEPT ![c] = "returned"]
    /\ UNCHANGED <<sup, mainpc, agentVars, countVars, coordVars>>

\* the monitor overlooks the outcome of the finished tasks
MonitorFindings_none ==
    {"none"}

\* the monitor takes every finished task for a permanent failure
MonitorFindings_any_done_is_fatal ==
    LET found == {comp[c].task : c \in Comps} \cap Finished
    IN  IF found = {} THEN {"none"}
        ELSE {IF t \in {"fatal", "ok"} THEN "fatal" ELSE "task_cancelled" : t \in found}

\* what one pass of _monitor_components finds in `done`: a task that raised
\* ("fatal"), a cancelled task whose CancelledError leaves the loop
\* ("task_cancelled"), or neither
MonitorFindings ==
    LET found == {comp[c].task : c \in Comps} \cap {"fatal", "cancelled"}
    IN  IF found = {} THEN {"none"}
        ELSE {IF t = "fatal" THEN "fatal" ELSE "task_cancelled" : t \in found}

\* _monitor_components: asyncio.wait returned (a task finished or the 1 s timeout)
MonitorWake ==
    /\ sup.monitor = "waiting" /\ ~sup.cancel_req
    /\ \E finding \in MonitorFindings :
          sup' = CASE finding = "fatal" ->
                        [sup EXCEPT !.shutdown_event = TRUE, !.monitor = "ended"]
                   [] finding = "task_cancelled" ->
                        [sup EXCEPT !.monitor = "ended"]
                   [] finding = "none" ->
                        IF sup.shutdown_event
                        THEN [sup EXCEPT !.monitor = "ended"] ELSE sup
    /\ UNCHANGED <<comp, mainpc, stop_pc, agentVars, countVars, coordVars>>

\* _monitor_components: cancelled by stop_all(), `except CancelledError: break`
MonitorCancelled ==
    /\ sup.monitor = "waiting" /\ sup.cancel_req
    /\ sup' = [sup EXCEPT !.monitor = "ended", !.cancel_req = FALSE]
    /\ UNCHANGED <<comp, mainpc, stop_pc, agentVars, countVars, coordVars>>

\* main(): start_all() starts every component and the monitor task, then
\* wait_for_shutdown()
MainStartAll ==
    /\ mainpc = "start"
    /\ comp' = [c \in Comps |-> start(comp[c])]
    /\ sup' = [sup EXCEPT !.monitor = "waiting"]
    /\ mainpc' = "wait_shutdown"
    /\ UNCHANGED <<stop_pc, agentVars, countVars, coordVars>>

\* main()'s signal_handler for SIGTERM/SIGINT
SignalHandler ==
    /\ mainpc \in {"start", "wait_shutdown"}
    /\ ~sup.shutdown_event
    /\ sup' = [sup EXCEPT !.shutdown_event = TRUE]
    /\ UNCHANGED <<comp, mainpc, stop_pc, agentVars, countVars, coordVars>>

\* main(): wait_for_shutdown() returned; stop_all() sets the event (set already)
\* and cancels the monitor task
MainStopAll ==
    /\ mainpc = "wait_shutdown"
    /\ sup.shutdown_event
    /\ IF sup.monitor = "waiting"
       THEN /\ sup' = [sup EXCEPT !.shutdown_event = TRUE, !.cancel_req = TRUE]
            /\ mainpc' = "stop_monitor"
       ELSE /\ sup' = [sup EXCEPT !.shutdown_event = TRUE]
            /\ mainpc' = "stop_gather"
    /\ UNCHANGED <<comp, stop_pc, agentVars, countVars, coordVars>>

\* stop_all(): the monitor task ended; gather(component.stop() ...)
MainMonitorEnded ==
    /\ mainpc = "stop_monitor"
    /\ sup.monitor = "ended"
    /\ mainpc' = "stop_gather"
    /\ UNCHANGED <<comp, sup, stop_pc, agentVars, countVars, coordVars>>

\* stop_all(): one of the gathered stop() calls begins
GatherStop(c) ==
    /\ mainpc = "stop_gather"
    /\ stop_pc[c] = "none"
    /\ StopBegin(c)
    /\ UNCHANGED <<sup, mainpc, agentVars, countVars, coordVars>>

\* gather returns with the first stop() that returned
MainExit_first_stop ==
    /\ mainpc = "stop_gather"
    /\ \E c \in Comps : stop_pc[c] = "returned"
    /\ mainpc' = "exited"
    /\ UNCHANGED <<comp, sup, stop_pc, agentVars, countVars, coordVars>>

\* stop_all() returned: every gathered stop() has returned; main() ends
MainExit ==
    /\ mainpc = "stop_gather"
    /\ \A c \in Comps : stop_pc[c] = "returned"
    /\ mainpc' = "exited"
    /\ UNCHANGED <<comp, sup, stop_pc, agentVars, countVars, coordVars>>

\* Supervisor.__init__ and add_component for each component; nothing started
InitSupervisor ==
    /\ comp = [c \in Comps |-> NewComponent]
    /\ sup = [shutdown_event |-> FALSE, monitor |-> "none", cancel_req |-> FALSE]
    /\ mainpc = "start"
    /\ stop_pc = [c \in Comps |-> "none"]

(***************************************************************************)
(* Specification of the agent lifecycle                                    *)
(***************************************************************************)
InitAgent ==
    /\ agent = [state |-> "running", shutdown_event |-> FALSE, pause_event |-> TRUE,
                pause_waiter |-> "none", readiness |-> FALSE, liveness |-> "absent",
                errors_count |-> 0, synced |-> "none", file_read |-> "none",
                file_applied |-> "none", file_skipped |-> FALSE,
                callback |-> [command |-> "none", turn |-> 0]]
    /\ pc = "connecting"
    /\ batch_state = "none"
    /\ cleanup_count = 0
    /\ mongo_connected = FALSE
    /\ watch_pc = "none"
    /\ hb_pc = "none"
    /\ mon_pc = "none"
    /\ control_file = "absent"
    /\ last_command = "none"

\* the coordinator's own state is not exercised by the lifecycle specifications
NoCoordinator ==
    /\ record = NoRecord
    /\ rs_support = FALSE
    /\ watch = [enable_change_streams |-> FALSE, mode |-> "none", pc |-> "none",
                retry_delay |-> 1, failures |-> 0,
                cancel_req |-> FALSE, stop |-> "idle", ended |-> "no"]
    /\ InitCoordIdle

Init ==
    /\ InitAgent
    /\ distributed \in BOOLEAN
    /\ eff_pause = 0
    /\ eff_resume = 0
    /\ NoCoordinator
    /\ InitSupervisor

MainLoop ==
    \/ RunConnected
    \/ \E command \in {"running", "pause", "shutdown"} : RunSynced(command)
    \/ PauseWake
    \/ \E ok \in BOOLEAN : BatchDone(ok)
    \/ SleepTimeout
    \/ SleepShutdown
    \/ CleanupWatchStopped
    \/ CleanupHeartbeatStopped
    \/ CleanupFinish

\* asyncio cancels the run() task at its current await (SupervisedComponent.stop).
\* Before the try block run() just ends; inside it the finally block runs.
Cancel ==
    /\ pc \in {"connecting", "sync", "pause_wait", "batch", "sleep"}
    /\ IF pc \in {"connecting", "sync"}
       THEN /\ pc' = "cancelled"
            /\ UNCHANGED <<agent, batch_state, cleanup_count, watch_pc, hb_pc>>
       ELSE RunTo(agent, "exit", watch_pc, hb_pc)
    /\ UNCHANGED <<mongo_connected, distributed, mon_pc, control_file,
                   last_command, countVars, coordVars,
                   supVars>>

NextLocal ==
    \/ MainLoop
    \/ PauseCall
    \/ ResumeCall
    \/ ShutdownCall
    \/ \E command \in ClusterCommands : ClusterCallback(command)
    \/ Heartbeat
    \/ \E raw \in ControlFileTexts : WriteControlFile(raw)
    \/ MonitorPoll

Next ==
    \/ NextLocal
    \/ Cancel

Spec == Init /\ [][Next]_vars

\* No external cancellation. The event loop runs every task that is ready and
\* the sleep's timer fires, so a main-loop step that stays enabled is taken.
FairSpec == Init /\ [][NextLocal]_vars /\ WF_vars(MainLoop)

(***************************************************************************)
(* pause()/resume() sequences on an agent that is not shut down, with the  *)
(* calls made in a valid precondition state counted                        *)
(***************************************************************************)
CountedPause ==
    /\ agent.state = "running" => eff_pause < MaxEffective
    /\ agent' = pause(agent)
    /\ eff_pause' = eff_pause + (IF agent.state = "running" THEN 1 ELSE 0)
    /\ UNCHANGED <<pc, batch_state, cleanup_count, mongo_connected, distributed,
                   watch_pc, hb_pc, mon_pc, control_file, last_command, eff_resume, coordVars,
                   supVars>>

CountedResume ==
    /\ agent.state = "paused" => eff_resume < MaxEffective
    /\ agent' = resume(agent)
    /\ eff_resume' = eff_resume + (IF agent.state = "paused" THEN 1 ELSE 0)
    /\ UNCHANGED <<pc, batch_state, cleanup_count, mongo_connected, distributed,
                   watch_pc, hb_pc, mon_pc, control_file, last_command, eff_pause, coordVars,
                   supVars>>

\* the agent runs without cluster coordination and nothing shuts it down
InitPR ==
    /\ InitAgent
    /\ distributed = FALSE
    /\ eff_pause = 0
    /\ eff_resume = 0
    /\ NoCoordinator
    /\ InitSupervisor

NextPR ==
    \/ CountedPause
    \/ CountedResume
    \/ RunConnected
    \/ PauseWake
    \/ \E ok \in BOOLEAN : BatchDone(ok)
    \/ SleepTimeout
    \/ Heartbeat

SpecPR == InitPR /\ [][NextPR]_vars

(***************************************************************************)
(* Specification of the coordinator against the shared store               *)
(***************************************************************************)
InitCoord ==
    /\ InitAgent
    /\ distributed = TRUE
    /\ eff_pause = 0
    /\ eff_resume = 0
    /\ record \in {NoRecord} \cup ExistingRecords
    /\ rs_support \in BOOLEAN
    /\ watch \in {[enable_change_streams |-> e, mode |-> "none", pc |-> "none",
                   retry_delay |-> 1, failures |-> 0,
                cancel_req |-> FALSE, stop |-> "idle", ended |-> "no"] : e \in BOOLEAN}
    /\ InitCoordIdle
    /\ InitSupervisor

WatchSteps ==
    \/ StartWatching
    \/ \E supported \in BOOLEAN : ProbeDone(supported)
    \/ StreamOpen
    \/ StreamNext
    \/ StreamError
    \/ PollRead
    \/ PollError
    \/ PollSleepWake
    \/ BackoffWake
    \/ StopWatching

\* writers: every coordinator initializes and issues cluster commands
NextWriters ==
    \/ \E c \in Coords : InitFind(c)
    \/ \E c \in Coords : InitInsert(c)
    \/ \E c \in Coords, req \in Requests : SetCall(c, req)
    \/ \E c \in Coords : ServerUpdate(c)

SpecWriters == InitCoord /\ [][NextWriters]_vars

\* watcher: one coordinator initializes and watches while another one writes
NextWatch ==
    \/ InitFind(Watcher)
    \/ InitInsert(Watcher)
    \/ \E c \in Coords \ {Watcher}, req \in Requests : SetCall(c, req)
    \/ \E c \in Coords \ {Watcher} : ServerUpdate(c)
    \/ WatchSteps

SpecWatch == InitCoord /\ [][NextWatch]_vars

\* poll mode: change streams are disabled by configuration, and the record is
\* also edited in place in the store
InitPoll ==
    /\ InitCoord
    /\ ~watch.enable_change_streams

NextPoll ==
    \/ InitFind(Watcher)
    \/ InitInsert(Watcher)
    \/ \E c \in Coords \ {Watcher}, req \in Requests : SetCall(c, req)
    \/ \E c \in Coords \ {Watcher} : ServerUpdate(c)
    \/ \E c \in valid_commands : DirectEdit(c)
    \/ StartWatching
    \/ PollRead
    \/ PollError
    \/ PollSleepWake
    \/ BackoffWake
    \/ StopWatching

SpecPoll == InitPoll /\ [][NextPoll]_vars

(***************************************************************************)
(* Specifications of the supervised components                             *)
(***************************************************************************)
\* the agent and the coordinator are not exercised by these specifications
InitComponents ==
    /\ InitAgent
    /\ distributed = TRUE
    /\ eff_pause = 0
    /\ eff_resume = 0
    /\ NoCoordinator
    /\ InitSupervisor

\* the steps of component c's _run_with_monitoring task that the event loop
\* takes by itself; a running component_func() may never end
TaskSteps(c) ==
    \/ TaskBegin(c)
    \/ \E outcome \in CancelOutcomes : RunCancelled(c, outcome)
    \/ \E through \in BOOLEAN : BackoffShutdown(c, through)
    \/ StopReturn(c)

\* components started and stopped one by one, with any pattern of crashes,
\* clean returns and stop() calls
NextComponents ==
    \/ \E c \in Comps : CompStart(c)
    \/ \E c \in Comps : TaskBegin(c)
    \/ \E c \in Comps : RunCrash(c)
    \/ \E c \in Comps : RunReturn(c)
    \/ \E c \in Comps, outcome \in CancelOutcomes : RunCancelled(c, outcome)
    \/ \E c \in Comps : BackoffTimeout(c)
    \/ \E c \in Comps, through \in BOOLEAN : BackoffShutdown(c, through)
    \/ \E c \in Comps : StopCall(c)
    \/ \E c \in Comps : StopReturn(c)

SpecComponents == InitComponents /\ [][NextComponents]_vars

\* the event loop runs a task that is ready, delivers a cancellation, and
\* resumes a stop() whose awaited task is done
FairSpecComponents ==
    /\ InitComponents
    /\ [][NextComponents]_vars
    /\ \A c \in Comps : WF_vars(TaskSteps(c))

\* the agent component's run function always raises and nothing stops the
\* components; the other component may also return
NextAlwaysFails ==
    \/ \E c \in Comps : CompStart(c)
    \/ \E c \in Comps : TaskBegin(c)
    \/ \E c \in Comps : RunCrash(c)
    \/ RunReturn("api-server")
    \/ \E c \in Comps : BackoffTimeout(c)

\* every run of the agent component ends by raising, and the backoff timer fires
SpecAlwaysFails ==
    /\ InitComponents
    /\ [][NextAlwaysFails]_vars
    /\ WF_vars(TaskBegin("agent"))
    /\ WF_vars(RunCrash("agent"))
    /\ WF_vars(BackoffTimeout("agent"))

(***************************************************************************)
(* Specification of the process: main(), the supervisor, its components    *)
(***************************************************************************)
\* steps of main() and of the monitor task
ProcessSteps ==
    \/ MainStartAll
    \/ MainStopAll
    \/ MainMonitorEnded
    \/ \E c \in Comps : GatherStop(c)
    \/ MainExit
    \/ MonitorWake
    \/ MonitorCancelled

NextProcess ==
    \/ ProcessSteps
    \/ SignalHandler
    \/ \E c \in Comps : TaskBegin(c)
    \/ \E c \in Comps : RunCrash(c)
    \/ \E c \in Comps : RunReturn(c)
    \/ \E c \in Comps, outcome \in CancelOutcomes : RunCancelled(c, outcome)
    \/ \E c \in Comps : BackoffTimeout(c)
    \/ \E c \in Comps, through \in BOOLEAN : BackoffShutdown(c, through)
    \/ \E c \in Comps : StopReturn(c)

SpecProcess == InitComponents /\ [][NextProcess]_vars

\* the event loop runs main(), the monitor (whose wait has a 1 s timeout) and
\* every task that is ready; signals, crashes, returns and backoff timeouts are
\* not forced
FairSpecProcess ==
    /\ InitComponents
    /\ [][NextProcess]_vars
    /\ WF_vars(ProcessSteps)
    /\ \A c \in Comps : WF_vars(TaskSteps(c))

(***************************************************************************)
(* The process with the agent component's run function being               *)
(* PullingAgent.run, which ends when a cluster command shuts the agent down *)
(***************************************************************************)
\* run() steps of an agent that no command pauses; a cancellation that is
\* pending is delivered first unless run() is already in its finally block,
\* whose awaits swallow it
AgentRunSteps ==
    /\ comp["agent"].task = "run"
    /\ comp["agent"].cancel_req =>
          pc \in {"cleanup_watch", "cleanup_hb", "cleanup_mon"}
    /\ \/ RunConnected
       \/ \E command \in {"running", "shutdown"} : RunSynced(command)
       \/ \E ok \in BOOLEAN : BatchDone(ok)
       \/ SleepTimeout
       \/ SleepShutdown
       \/ CleanupWatchStopped
       \/ CleanupHeartbeatStopped
       \/ CleanupFinish

\* stop() cancelled the component task: CancelledError is thrown into run()
AgentCancel ==
    /\ comp["agent"].task = "run" /\ comp["agent"].cancel_req
    /\ Cancel

\* `await self.component_func()` ends for the agent component: run() returned,
\* or it ended under a cancellation (re-raised after the finally block, or
\* swallowed inside it)
AgentRunEnds ==
    \/ pc = "done" /\ RunReturn("agent")
    \/ pc \in {"done", "cancelled"} /\ RunCancelled("agent", "cancelled")
    \/ pc = "done" /\ RunCancelled("agent", "return")

\* event-loop steps of the component tasks and of stop()
CascadeTaskSteps ==
    \/ \E c \in Comps : TaskBegin(c)
    \/ \E c \in Comps : StopReturn(c)
    \/ \E outcome \in CancelOutcomes : RunCancelled("api-server", outcome)
    \/ \E through \in BOOLEAN : BackoffShutdown("api-server", through)
    \/ AgentCancel
    \/ AgentRunEnds

NextCascade ==
    \/ ProcessSteps
    \/ SignalHandler
    \/ CascadeTaskSteps
    \/ AgentRunSteps
    \/ ClusterCallback("shutdown")
    \/ RunCrash("api-server")
    \/ RunReturn("api-server")
    \/ BackoffTimeout("api-server")

\* the event loop runs main(), the monitor, the tasks that are ready and the
\* agent's run(); nothing forces a signal, a cluster command, or the API
\* server to crash or return
FairSpecCascade ==
    /\ InitComponents
    /\ [][NextCascade]_vars
    /\ WF_vars(ProcessSteps)
    /\ WF_vars(CascadeTaskSteps)
    /\ WF_vars(AgentRunSteps)

(***************************************************************************)
(* Startup of an agent against the cluster record, which another instance  *)
(* may be writing; nothing else controls the agent                         *)
(***************************************************************************)
\* records the cluster can hold when the agent starts
StartupRecords ==
    {[command |-> c, version |-> 2, reason |-> "maintenance", updated_by |-> "ops"] :
        c \in valid_commands}

InitStartup ==
    /\ InitAgent
    /\ distributed = TRUE
    /\ eff_pause = 0
    /\ eff_resume = 0
    /\ record \in StartupRecords
    /\ rs_support = FALSE
    /\ watch = [enable_change_streams |-> FALSE, mode |-> "none", pc |-> "none",
                retry_delay |-> 1, failures |-> 0,
                cancel_req |-> FALSE, stop |-> "idle", ended |-> "no"]
    /\ InitCoordIdle
    /\ InitSupervisor

\* run() up to and through its main loop, the startup sync reading the record
\* as it is at that moment
NextStartup ==
    \/ RunConnected
    \/ RunSynced(get_current_command.command)
    \/ \E ok \in BOOLEAN : BatchDone(ok)
    \/ SleepTimeout
    \/ Heartbeat
    \/ \E c \in Coords \ {Watcher}, req \in Requests : SetCall(c, req)
    \/ \E c \in Coords \ {Watcher} : ServerUpdate(c)

SpecStartup == InitStartup /\ [][NextStartup]_vars

(***************************************************************************)
(* An agent with cluster coordination in poll mode: run() initializes the  *)
(* coordinator, syncs, starts the watch task, whose callback is the        *)
(* agent's; another instance writes cluster commands                       *)
(***************************************************************************)
InitAgentPoll ==
    /\ InitAgent
    /\ distributed = TRUE
    /\ eff_pause = 0
    /\ eff_resume = 0
    /\ record \in {NoRecord, InitialDocument}
    /\ rs_support = FALSE
    /\ watch = [enable_change_streams |-> FALSE, mode |-> "none", pc |-> "none",
                retry_delay |-> 1, failures |-> 0,
                cancel_req |-> FALSE, stop |-> "idle", ended |-> "no"]
    /\ InitCoordIdle
    /\ InitSupervisor

\* run() lines 156-168: initialize(), the startup sync, start_watching()
AgentInitialize ==
    /\ pc = "sync"
    /\ coord[Watcher].ipc # "done"
    /\ (InitFind(Watcher) \/ InitInsert(Watcher))

AgentSynced ==
    /\ coord[Watcher].ipc = "done"
    /\ RunSynced(get_current_command.command)

NextAgentPoll ==
    \/ RunConnected
    \/ AgentInitialize
    \/ AgentSynced
    \/ PauseWake
    \/ \E ok \in BOOLEAN : BatchDone(ok)
    \/ SleepTimeout
    \/ SleepShutdown
    \/ CleanupWatchStopped
    \/ CleanupHeartbeatStopped
    \/ CleanupFinish
    \/ PauseCall
    \/ ResumeCall
    \/ watch_pc = "watching" /\ StartWatching
    \/ AgentPollRead
    \/ watch_pc = "watching" /\ PollSleepWake
    \/ \E c \in Coords \ {Watcher}, req \in Requests : SetCall(c, req)
    \/ \E c \in Coords \ {Watcher} : ServerUpdate(c)

SpecAgentPoll == InitAgentPoll /\ [][NextAgentPoll]_vars

(***************************************************************************)
(* The watch task under every configuration and deployment, with transport *)
(* errors, restarts of the watch, and another instance pausing and         *)
(* resuming the cluster                                                    *)
(***************************************************************************)
PauseResumeRequests ==
    {req \in Requests : req.command \in {"pause", "running"}}

NextWatchMode ==
    \/ InitFind(Watcher)
    \/ InitInsert(Watcher)
    \/ \E c \in Coords \ {Watcher}, req \in PauseResumeRequests : SetCall(c, req)
    \/ \E c \in Coords \ {Watcher} : ServerUpdate(c)
    \/ WatchSteps

SpecWatchMode == InitCoord /\ [][NextWatchMode]_vars

(***************************************************************************)
(* Poll mode with store errors: the polling task is never stopped, its     *)
(* sleeps end, and a read that is attempted again and again eventually     *)
(* succeeds                                                                *)
(***************************************************************************)
NextPollRetry ==
    \/ InitFind(Watcher)
    \/ InitInsert(Watcher)
    \/ \E c \in Coords \ {Watcher}, req \in Requests : SetCall(c, req)
    \/ \E c \in Coords \ {Watcher} : ServerUpdate(c)
    \/ StartWatching
    \/ PollRead
    \/ PollError
    \/ PollSleepWake
    \/ BackoffWake

FairSpecPollRetry ==
    /\ InitPoll
    /\ [][NextPollRetry]_vars
    /\ SF_vars(PollRead)
    /\ WF_vars(PollSleepWake)
    /\ WF_vars(BackoffWake)

(***************************************************************************)
(* An agent with cluster coordination in push mode on a replica set, while *)
(* another instance pauses and resumes the cluster.  Transport errors hit  *)
(* the change stream when no change event is waiting in it, so that the    *)
(* only writes the stream does not carry are those made while it is not    *)
(* open.  The subscription is eventually (re)established when retried.     *)
(***************************************************************************)
InitAgentPush ==
    /\ InitAgent
    /\ distributed = TRUE
    /\ eff_pause = 0
    /\ eff_resume = 0
    /\ record \in {NoRecord, InitialDocument}
    /\ rs_support = TRUE
    /\ watch = [enable_change_streams |-> TRUE, mode |-> "none", pc |-> "none",
                retry_delay |-> 1, failures |-> 0,
                cancel_req |-> FALSE, stop |-> "idle", ended |-> "no"]
    /\ InitCoordIdle
    /\ InitSupervisor

\* the change stream of the agent's watch task is not open
Unsubscribed ==
    watch.pc # "streaming"

WatchPush ==
    \/ watch_pc = "watching" /\ StartWatching
    \/ ProbeDone(TRUE)
    \/ StreamOpen
    \/ AgentStreamNext
    \/ BackoffWake

NextAgentPush ==
    \/ RunConnected
    \/ AgentInitialize
    \/ AgentSynced
    \/ PauseWake
    \/ \E ok \in BOOLEAN : BatchDone(ok)
    \/ SleepTimeout
    \/ WatchPush
    \/ stream = <<>> /\ StreamError
    \/ \E c \in Coords \ {Watcher}, req \in PauseResumeRequests : SetCall(c, req)
    \/ \E c \in Coords \ {Watcher} : ServerUpdate(c)

FairSpecAgentPush ==
    /\ InitAgentPush
    /\ [][NextAgentPush]_vars
    /\ SF_vars(StreamOpen)
    /\ WF_vars(WatchPush)

(***************************************************************************)
(* One watch, in either mode, stopped by stop_watching() at any point.     *)
(* A task whose cancellation is pending takes no step but the delivery of  *)
(* the CancelledError.                                                     *)
(***************************************************************************)
PauseRequests ==
    {req \in Requests : req.command = "pause"}

\* the steps of a watch task that no cancellation is pending for
WatchTaskSteps ==
    /\ ~watch.cancel_req
    /\ \/ watch.stop = "idle" /\ StartWatching
       \/ \E supported \in BOOLEAN : ProbeDone(supported)
       \/ StreamOpen
       \/ StreamNext
       \/ StreamError
       \/ PollRead
       \/ PollError
       \/ PollSleepWake
       \/ BackoffWake

NextStopWatch ==
    \/ InitFind(Watcher)
    \/ InitInsert(Watcher)
    \/ \E c \in Coords \ {Watcher}, req \in PauseRequests : SetCall(c, req)
    \/ \E c \in Coords \ {Watcher} : ServerUpdate(c)
    \/ WatchTaskSteps
    \/ StopWatchingBegin
    \/ WatchCancelled
    \/ StopWatchingReturn

\* the event loop runs the cancelled task and then the task awaiting it
FairSpecStopWatch ==
    /\ InitCoord
    /\ [][NextStopWatch]_vars
    /\ WF_vars(WatchCancelled)
    /\ WF_vars(StopWatchingReturn)

(***************************************************************************)
(* The control file: an operator writes and removes it, the monitor polls  *)
(* it every 2 s, and the API pauses and resumes the agent                  *)
(***************************************************************************)
NextControlFile ==
    \/ RunConnected
    \/ PauseWake
    \/ \E ok \in BOOLEAN : BatchDone(ok)
    \/ SleepTimeout
    \/ CountedPause
    \/ CountedResume
    \/ \E raw \in ControlFileTexts \ {"shutdown"} : WriteControlFile(raw)
    \/ MonitorPollRead

\* the monitor's sleep(2) ends and it polls again
FairSpecControlFile ==
    /\ InitPR
    /\ [][NextControlFile]_vars
    /\ WF_vars(MonitorPollRead)

(***************************************************************************)
(* The agent with cluster coordination, driven by its watch callback only  *)
(***************************************************************************)
\* the watch task calls the callback; the field callback keeps the command it
\* was called with, and turn changes at every call
ClusterCallbackSeen(command) ==
    /\ watch_pc = "watching"
    /\ agent' = [OnDistributedControlCommand(agent, command) EXCEPT
                    !.callback = [command |-> command,
                                  turn |-> 1 - agent.callback.turn]]
    /\ UNCHANGED <<pc, batch_state, cleanup_count, mongo_connected, distributed,
                   watch_pc, hb_pc, mon_pc, control_file, last_command,
                   countVars, coordVars, supVars>>

NextAgentCallback ==
    \/ MainLoop
    \/ \E command \in ClusterCommands : ClusterCallbackSeen(command)

SpecAgentCallback == Init /\ [][NextAgentCallback]_vars

(***************************************************************************)
(* Claims                                                                  *)
(***************************************************************************)

\* C1: no process_batch() call begins once shutdown() has set the state to
\* Stopping: the state observed at the start of every batch is Running or Paused.
C1_NoBatchAfterStopping ==
    batch_state \notin {"stopping", "stopped"}

\* C2: once shutdown() has been called while run() is in its main loop, the loop
\* eventually exits, the cleanup runs and the state becomes Stopped.
C2_ShutdownLeadsToStopped ==
    (agent.state = "stopping" /\ pc \in {"pause_wait", "batch", "sleep"})
        ~> (agent.state = "stopped" /\ cleanup_count = 1)

\* C3: without shutdown, the state changes only by an effective pause() (Running
\* to Paused) or an effective resume() (Paused to Running), and the state is
\* Paused iff the effective pause() calls outnumber the effective resume() calls.
C3_PausedIffMorePauses ==
    /\ [](agent.state \in {"running", "paused"})
    /\ []((agent.state = "paused") <=> (eff_pause > eff_resume))
    /\ [][agent'.state # agent.state =>
            \/ /\ agent.state = "running" /\ agent'.state = "paused"
               /\ eff_pause' = eff_pause + 1 /\ eff_resume' = eff_resume
            \/ /\ agent.state = "paused" /\ agent'.state = "running"
               /\ eff_resume' = eff_resume + 1 /\ eff_pause' = eff_pause]_vars

\* C3 witness: a pause, a resume and a second pause were effective, and the
\* main loop is parked on the pause wait.
C3_Witness ==
    /\ eff_pause = 2 /\ eff_resume = 1
    /\ agent.state = "paused" /\ pc = "pause_wait"

\* C4: Stopping changes only to Stopped and Stopped never changes, whatever
\* pause(), resume(), shutdown(), control-file or cluster command is applied.
C4_StoppingStoppedIrreversible ==
    [][/\ agent.state = "stopping" => agent'.state \in {"stopping", "stopped"}
       /\ agent.state = "stopped" => agent'.state = "stopped"]_vars

\* C4 witness: the control file said "running" while the agent was no longer
\* Running or Paused, and the monitor took it as a resume.
C4_Witness ==
    /\ agent.state = "stopping"
    /\ control_file = "running" /\ last_command = "running"
    /\ batch_state = "running"

\* a shutdown() call, from a signal or the API, the cluster callback or the
\* control-file monitor
IsShutdownCall ==
    \/ ShutdownCall
    \/ ClusterCallback("shutdown")
    \/ (MonitorPoll /\ StripLower(control_file) = "shutdown"
                    /\ last_command # "shutdown")

C6_VersionCountsWrites ==
    /\ [](Exists(record) =>
             record.version = writes.initial + Len(writes.returned))
    /\ [](\A i, j \in 1..Len(writes.returned) :
             i # j => writes.returned[i] # writes.returned[j])
    /\ [][record'.version >= record.version]_vars

\* C6 witness: one call has succeeded on an existing record while two more
\* calls by different coordinators are in flight.
C6_Witness ==
    /\ Cardinality(InFlight) = 2
    /\ Len(writes.returned) = 1
    /\ writes.initial = 2 /\ record.version = 3

\* C7: the versions the watch passes to the callback are strictly increasing, in
\* push mode and in poll mode: none is delivered twice or after a newer one.
C7_DeliveredStrictlyIncreasing ==
    \A i, j \in 1..Len(delivered) :
        i < j => delivered[i].version < delivered[j].version

\* a poll: get_current_command() returned and the task went on to its sleep
PollStep ==
    watch.pc = "poll" /\ watch'.pc = "poll_sleep"

\* C8: in poll mode a poll that reads a version greater than the last-seen one
\* invokes the callback once, with that record's command and version; a poll that
\* reads the last-seen version invokes none, whatever the record's other fields;
\* no callback happens outside a poll and the delivered versions increase.
C8_PollDeliversOncePerIncrease ==
    /\ [][PollStep =>
            IF record.version > coord[Watcher].last_version
            THEN /\ delivered' = Append(delivered,
                        [command |-> record.command, version |-> record.version,
                         via |-> "poll"])
                 /\ coord'[Watcher].last_version = record.version
            ELSE /\ delivered' = delivered
                 /\ coord' = coord]_vars
    /\ [][delivered' # delivered => PollStep]_vars
    /\ [](\A i, j \in 1..Len(delivered) :
             i < j => delivered[i].version < delivered[j].version)

\* C8 witness: the latest poll read the last-seen version with a command other
\* than the one delivered for that version, and delivered nothing.
C8_Witness ==
    /\ watch.pc = "poll_sleep"
    /\ last_poll.version = last_poll.before
    /\ Len(delivered) >= 1
    /\ delivered[Len(delivered)].version = last_poll.version
    /\ delivered[Len(delivered)].command # last_poll.command
    /\ coord[Watcher].last_version = last_poll.version

\* C9: a poll that finds the store three versions ahead of the last-seen version V
\* invokes the callback exactly once, with the command stored at V+3, and makes
\* V+3 the last-seen version.
C9_JumpByThreeDeliversLatest ==
    [][(PollStep /\ coord[Watcher].last_version >= 1
                 /\ record.version = coord[Watcher].last_version + 3) =>
          /\ delivered' = Append(delivered,
                 [command |-> record.command, version |-> record.version,
                  via |-> "poll"])
          /\ coord'[Watcher].last_version = coord[Watcher].last_version + 3]_vars

\* C9 witness: the latest poll went from last-seen V to V+3 with one callback,
\* and no version between them was ever delivered.
C9_Witness ==
    /\ watch.pc = "poll_sleep"
    /\ last_poll.before >= 1
    /\ last_poll.version = last_poll.before + 3
    /\ coord[Watcher].last_version = last_poll.version
    /\ delivered[Len(delivered)].version = last_poll.version
    /\ \A i \in 1..Len(delivered) :
          delivered[i].version \notin {last_poll.before + 1, last_poll.before + 2}

\* C10: a set_global_command call whose command is not running, pause or
\* shutdown raises the invalid-command error and leaves the stored record as it
\* was; no such command is ever stored.
C10_InvalidCommandRejected ==
    /\ [][\A c \in Coords :
            (/\ call[c].st = "idle"
             /\ call'[c] # call[c]
             /\ call'[c].req.command \notin {"running", "pause", "shutdown"}) =>
            (/\ call'[c].res = "ValueError"
             /\ call'[c].st = "idle"
             /\ record' = record)]_vars
    /\ [](record.command \in {"none", "running", "pause", "shutdown"})

\* C10 witness: a call with command "resume" was rejected after a command had
\* been written, and the record still holds that write.
C10_Witness ==
    \E c \in Coords :
        /\ call[c].res = "ValueError" /\ call[c].req.command = "resume"
        /\ Len(writes.returned) = 1
        /\ record.version = writes.initial + 1

\* C11: when no other writer wrote between the call and its update,
\* get_current_command() right after a successful set_global_command(command,
\* reason, updated_by) returns a record with that command, reason and updated_by
\* and with the version the store had before the call plus one.
C11_ReadAfterWrite ==
    [][\A c \in Coords :
          (/\ call[c].st = "inflight"
           /\ call'[c].res = "ok"
           /\ get_current_command.version = call[c].before) =>
          (/\ get_current_command'.command = call[c].req.command
           /\ get_current_command'.reason = call[c].req.reason
           /\ get_current_command'.updated_by = call[c].req.updated_by
           /\ get_current_command'.version = call[c].before + 1)]_vars

\* C11 witness: the one successful call so far asked for running with the default
\* reason and updated_by on the record (pause, 2, maintenance, ops), and the
\* store now reads (running, 3, "", api).
C11_Witness ==
    /\ \E c \in Coords : call[c].res = "ok"
    /\ writes.returned = <<3>>
    /\ get_current_command = [command |-> "running", version |-> 3,
                              reason |-> "", updated_by |-> "api"]

\* a step of initialize() by coordinator c (the only other step that changes a
\* coordinator's fields is a poll of the watching coordinator)
InitializeStep(c) ==
    /\ coord'[c] # coord[c]
    /\ ~(c = Watcher /\ watch.pc = "poll")

\* C12: initialize() creates the record, with command running and version 1, only
\* when none exists; when its find_one finds a record it leaves the record as it
\* is and sets the last-seen version to the record's version; no step of an
\* initialize() call, repeated or concurrent, changes an existing record.
C12_InitializeCreatesOnlyWhenAbsent ==
    [][\A c \in Coords : InitializeStep(c) =>
          IF Exists(record)
          THEN /\ record' = record
               /\ coord[c].ipc # "insert" =>
                     coord'[c] = [ipc |-> "done", last_version |-> record.version]
          ELSE IF coord[c].ipc = "insert"
               THEN /\ record'.command = "running" /\ record'.version = 1
                    /\ coord'[c] = [ipc |-> "done", last_version |-> 1]
               ELSE /\ record' = record
                    /\ coord'[c].ipc = "insert"]_vars

\* C12 witness: the store was empty, one coordinator created the record and the
\* other one's initialize() found it: both have last-seen version 1 and the
\* record is the initial one.
C12_Witness ==
    /\ writes.initial = 1
    /\ record.command = "running" /\ record.version = 1
    /\ \A c \in Coords : coord[c] = [ipc |-> "done", last_version |-> 1]

\* the end the restart limit gives: STOPPED, RuntimeError out of the task
Exhausted(c) ==
    /\ comp[c].task = "fatal"
    /\ comp[c].state = "stopped"
    /\ comp[c].crash_count = max_restarts + 1
    /\ comp[c].restart_count = max_restarts
    /\ comp[c].runs = max_restarts + 1

\* C13: a started component whose run function always fails ends in state
\* Stopped with its task failed by the fatal error, after exactly max_restarts
\* restarts and max_restarts + 1 crashes; it never restarts or crashes more.
C13_RestartLimit ==
    /\ (comp["agent"].task = "created") ~> Exhausted("agent")
    /\ [](comp["agent"].task = "fatal" => Exhausted("agent"))
    /\ [](comp["agent"].restart_count <= max_restarts
          /\ comp["agent"].crash_count <= max_restarts + 1)

\* C13 witness: the always-failing component has used up its restarts while the
\* other component is still in its first run.
C13_Witness ==
    /\ Exhausted("agent")
    /\ comp["api-server"].task = "run" /\ comp["api-server"].runs = 1

\* C14: in every reachable state of every supervised component
\* restart_count <= max_restarts and crash_count <= restart_count + 1.
C14_CountersBounded ==
    \A c \in Comps :
        /\ comp[c].restart_count <= max_restarts
        /\ comp[c].crash_count <= comp[c].restart_count + 1

\* C14 witness: a component at both limits whose stop() has returned.
C14_Witness ==
    \E c \in Comps :
        /\ comp[c].restart_count = max_restarts
        /\ comp[c].crash_count = max_restarts + 1
        /\ stop_pc[c] = "returned"

\* every component is stopped: its task is done and its state is Stopped
AllStopped ==
    \A c \in Comps : comp[c].state = "stopped" /\ comp[c].task \in Finished

\* C15: when a component's task has ended with the restart-limit error the
\* supervisor's shutdown signal is eventually set, by the first monitor pass and
\* whatever the other components are doing, and main() then stops every
\* component and ends.
C15_FatalTriggersShutdown ==
    /\ (\E c \in Comps : comp[c].task = "fatal") ~> sup.shutdown_event
    /\ (\E c \in Comps : comp[c].task = "fatal") ~>
           (mainpc = "exited" /\ AllStopped)
    /\ [][((\E c \in Comps : comp[c].task = "fatal")
             /\ sup.monitor = "waiting" /\ sup'.monitor = "ended")
          => sup'.shutdown_event]_vars

\* C15 witness: the monitor has ended with the shutdown signal set while one
\* component is exhausted, the other is still running undisturbed, and main()
\* has not yet begun to stop anything.
C15_Witness ==
    /\ sup.shutdown_event /\ sup.monitor = "ended"
    /\ mainpc = "wait_shutdown"
    /\ \E c, d \in Comps :
          /\ comp[c].task = "fatal"
          /\ comp[d].task = "run" /\ ~comp[d].cancel_req

\* C16: once the agent has applied the cluster command shutdown (the only
\* source of Stopping here), the process eventually exits with every supervised
\* component stopped.
C16_ClusterShutdownCascades ==
    (agent.state = "stopping") ~> (mainpc = "exited" /\ AllStopped)

\* C17: a clean return of the run function puts the component in Stopped and
\* ends its task without error; crash_count and restart_count stay as they
\* were, and the run function is never invoked again.
C17_CleanReturnIsFinal ==
    /\ [][\A c \in Comps :
            (comp[c].task = "run" /\ ~comp[c].cancel_req /\ comp'[c].task = "ok") =>
            (/\ comp'[c].state = "stopped"
             /\ comp'[c].crash_count = comp[c].crash_count
             /\ comp'[c].restart_count = comp[c].restart_count
             /\ comp'[c].runs = comp[c].runs)]_vars
    /\ [][\A c \in Comps :
            comp[c].task = "ok" =>
            (/\ comp'[c].task = "ok"
             /\ comp'[c].state = "stopped"
             /\ comp'[c].runs = comp[c].runs
             /\ comp'[c].crash_count = comp[c].crash_count
             /\ comp'[c].restart_count = comp[c].restart_count)]_vars

\* C17 witness: a component returned cleanly from its second run, with no
\* stop() call and no shutdown request.
C17_Witness ==
    \E c \in Comps :
        /\ comp[c].task = "ok" /\ comp[c].state = "stopped"
        /\ comp[c].runs = 2 /\ comp[c].restart_count = 1 /\ comp[c].crash_count = 1
        /\ ~comp[c].shutdown_event /\ stop_pc[c] = "none"

\* a shutdown request has reached component c during its restart backoff
ShutdownInBackoff(c) ==
    comp[c].task = "backoff" /\ comp[c].shutdown_event

\* C18: a shutdown request during the restart backoff ends the wait: the run
\* function is not invoked again, restart_count is not incremented, and the
\* component ends in Stopped with its task finished.
C18_ShutdownDuringBackoff ==
    /\ [][\A c \in Comps : ShutdownInBackoff(c) =>
            (/\ comp'[c].runs = comp[c].runs
             /\ comp'[c].restart_count = comp[c].restart_count
             /\ comp'[c].task \in {"backoff", "ok", "cancelled"})]_vars
    /\ \A c \in Comps :
          ShutdownInBackoff(c) ~>
             (comp[c].task \in {"ok", "cancelled"} /\ comp[c].state = "stopped")

\* C18 witness: stop() has returned on a component whose last crash was never
\* followed by a restart, and whose task ended by cancellation or by the break.
C18_Witness ==
    \E c \in Comps :
        /\ stop_pc[c] = "returned" /\ comp[c].state = "stopped"
        /\ comp[c].task \in {"ok", "cancelled"}
        /\ comp[c].crash_count = 2 /\ comp[c].restart_count = 1
        /\ comp[c].runs = 2

\* C19: a stop() call returns only when the component's task is finished (or
\* was never created) and the state is Stopped; a stop() that has to wait has
\* set the shutdown event and cancelled the task; every stop() call returns.
C19_StopReachesStopped ==
    /\ [][\A c \in Comps :
            (stop_pc[c] # "returned" /\ stop_pc'[c] = "returned")
            => (comp'[c].state = "stopped"
                /\ comp'[c].task \in Finished \cup {"none"})]_vars
    /\ [][\A c \in Comps :
            (stop_pc[c] # "awaiting" /\ stop_pc'[c] = "awaiting")
            => (comp'[c].shutdown_event /\ comp'[c].cancel_req)]_vars
    /\ \A c \in Comps : (stop_pc[c] = "awaiting") ~> (stop_pc[c] = "returned")

\* C19 witness: stop() has returned after cancelling a run in flight on one
\* component and after a fatal failure on the other.
C19_Witness ==
    \E c, d \in Comps :
        /\ stop_pc[c] = "returned" /\ comp[c].task = "cancelled"
        /\ comp[c].runs = 1 /\ comp[c].crash_count = 0 /\ comp[c].state = "stopped"
        /\ stop_pc[d] = "returned" /\ comp[d].task = "fatal"
        /\ comp[d].state = "stopped"

\* C20: after stop_all() has returned the monitor task has ended and every
\* component is Stopped with its task finished, also when a stop() call met the
\* error of a failed task.
C20_StopAllStopsEverything ==
    mainpc = "exited" => (sup.monitor = "ended" /\ AllStopped)

\* C20 witness: stop_all() has returned; one stop() awaited a task that had
\* failed with the fatal error, the other cancelled a running component.
C20_Witness ==
    /\ mainpc = "exited"
    /\ \E c, d \in Comps :
          /\ comp[c].task = "fatal"
          /\ comp[d].task = "cancelled" /\ comp[d].runs >= 1

\* C21: with cluster coordination enabled the startup sync applies the command
\* it read before the first batch: after reading pause the agent is Paused and
\* has begun no batch, after reading shutdown it is Stopping (or Stopped) and has
\* begun no batch, after reading running it is Running.
C21_StartupSyncApplied ==
    /\ agent.synced = "pause" => (agent.state = "paused" /\ batch_state = "none")
    /\ agent.synced = "shutdown" =>
          (agent.state \in {"stopping", "stopped"} /\ batch_state = "none")
    /\ agent.synced = "running" => agent.state = "running"

\* the watch task's poll invokes the agent's callback in this step
CallbackStep ==
    /\ watch.pc = "poll"
    /\ watch'.pc = "poll_sleep"
    /\ Len(delivered') = Len(delivered) + 1

\* C22: a poll that finds the cluster command pause while the agent is Running
\* invokes the agent's callback with the stored record, the agent becomes Paused
\* and its readiness marker is removed; a poll that then finds running makes the
\* agent Running again with the readiness marker present.
C22_ClusterPauseThenRunning ==
    [][CallbackStep =>
         LET d == delivered'[Len(delivered')]
         IN  /\ d.command = record.command /\ d.version = record.version
             /\ (d.command = "pause" /\ agent.state = "running") =>
                    (agent'.state = "paused" /\ ~agent'.readiness)
             /\ (d.command = "running" /\ agent.state = "paused") =>
                    (agent'.state = "running" /\ agent'.readiness)]_vars

\* pause at version 2 and running at version 3 were delivered in turn and the
\* agent is Running and ready again
C22_Witness ==
    /\ Len(delivered) = 2
    /\ delivered[1].command = "pause" /\ delivered[1].version = 2
    /\ delivered[2].command = "running" /\ delivered[2].version = 3
    /\ agent.state = "running"
    /\ agent.readiness

\* run() has passed `self._update_readiness(ready=True)` (agent.py:177)
ReadinessSignalled ==
    pc \notin {"connecting", "sync", "cancelled"}

\* C23: the readiness marker is never present while the state is Paused,
\* Stopping or Stopped; and once run() has signalled readiness, whatever
\* pause(), resume() and shutdown() calls have completed, the marker exists
\* iff the state is Running.
C23_ReadinessIffRunning ==
    /\ agent.readiness => agent.state = "running"
    /\ ReadinessSignalled => (agent.readiness <=> agent.state = "running")

\* a pause() and then a resume() completed while the main loop was in its pause
\* wait: Running again, marker written by resume()
C23_Witness ==
    /\ pc = "pause_wait"
    /\ agent.pause_waiter = "resolved"
    /\ agent.state = "running"
    /\ agent.readiness

\* run() has ended, and it ended after mongo.connect() returned
TerminatedAfterConnect ==
    \/ pc = "done"
    \/ pc = "cancelled" /\ mongo_connected

\* C24: whenever run() has terminated after connecting to the store, by normal
\* exit or by cancellation, the cleanup has run: the cluster watch is stopped,
\* the heartbeat and the control-file monitor have ended, the readiness and
\* liveness markers are absent and the store connection is released.
C24_CleanupAlwaysRuns ==
    TerminatedAfterConnect =>
        /\ cleanup_count >= 1
        /\ watch_pc # "watching"
        /\ hb_pc # "running"
        /\ mon_pc # "polling"
        /\ ~agent.readiness
        /\ agent.liveness = "absent"
        /\ ~mongo_connected

\* positions of the watch task inside _watch_with_change_streams and inside
\* _watch_with_polling
PushPcs == {"stream_open", "streaming", "backoff_stream"}
PollPcs == {"poll", "poll_sleep", "backoff_poll"}

\* C25: the watch mode is unset until the first watch decides it; a watch sets
\* it to push only when push notifications are enabled and the capability probe
\* succeeded, and to poll otherwise; while the watch task is in its push or poll
\* loop, across transport errors and retries, the mode stays what was set.
C25_WatchModeFixed ==
    /\ watch.mode = "none"
    /\ [](watch.mode = "none" => watch.pc \in {"none", "probe"})
    /\ [](watch.pc \in PushPcs =>
            (watch.mode = "change_streams" /\ watch.enable_change_streams
             /\ rs_support))
    /\ [](watch.pc \in PollPcs => watch.mode = "polling")
    /\ [][watch'.mode # watch.mode =>
            /\ watch.pc \in {"none", "probe"}
            /\ watch'.mode = IF watch.pc = "probe" /\ watch'.pc = "stream_open"
                             THEN "change_streams" ELSE "polling"]_vars
    /\ [][(watch.pc = "none" /\ watch'.pc # "none" /\ ~watch.enable_change_streams)
            => (watch'.mode = "polling" /\ watch'.pc = "poll")]_vars

\* a push-mode watch in its second retry after transport errors, with a
\* command delivered before
C25_Witness ==
    /\ watch.mode = "change_streams"
    /\ watch.pc = "backoff_stream"
    /\ watch.retry_delay = 2
    /\ Len(delivered) >= 1

\* C26: no process_batch() call begins while the agent state is Paused, however
\* pause() and resume() calls interleave with the main loop waking up from its
\* pause wait: the state observed at the start of every batch is not Paused.
C26_NoBatchWhilePaused ==
    batch_state # "paused"

\* the callback has been invoked by a poll with the record as it is stored now
LatestDelivered ==
    \E i \in 1..Len(delivered) :
        /\ delivered[i].version = record.version
        /\ delivered[i].command = record.command
        /\ delivered[i].via = "poll"

\* C27: in poll mode, when the record has been written since the watcher last
\* saw it and store reads eventually succeed, the watcher eventually invokes the
\* callback with the record of the latest version, also when polls before
\* that failed and were retried with backoff.
C27_PollEventuallyDelivers ==
    (watch.pc \in PollPcs /\ VersionChanged(record)) ~> LatestDelivered

\* version 3, written before the poll saw version 2, was delivered by a poll
\* that found the watcher at version 1
C27_Witness ==
    /\ LatestDelivered
    /\ Len(delivered) = 1
    /\ record.version = 3
    /\ last_poll.before = 1
    /\ watch.pc = "poll_sleep"

\* the agent's state is what the stored cluster command asks for
Applied ==
    /\ record.command = "pause" => agent.state = "paused"
    /\ record.command = "running" => agent.state = "running"

\* the callback has been invoked by a change event with the stored record
LatestPushed ==
    \E i \in 1..Len(delivered) :
        /\ delivered[i].version = record.version
        /\ delivered[i].command = record.command
        /\ delivered[i].via = "push"

\* C28: in push mode a command that was written while the subscription was not
\* established (after the startup sync read and before the first subscription,
\* or during a reconnect backoff) is, once the subscription is established,
\* eventually delivered to the callback or otherwise applied to the agent.
C28_MissedCommandEventuallyApplied ==
    (agent.synced # "none" /\ watch_pc = "watching" /\ Unsubscribed /\ ~Applied)
        ~> (Applied \/ LatestPushed)

\* the values min(2^(k-1), max_retry_delay) a retry delay can take
RetryDelays == {1, 2, 4, 8, 16, max_retry_delay}

\* C29: in poll mode the retry delay is one of 1, 2, 4, 8, 16, 30, and after
\* any successful store read, whether or not it found a new version, the task
\* sleeps the polling interval with the retry delay back at 1.
C29_PollDelayResetOnSuccess ==
    watch.pc \in PollPcs =>
        /\ watch.retry_delay \in RetryDelays
        /\ watch.pc = "poll_sleep" => watch.retry_delay = 1

\* C30: in push mode the task sleeps min(2^(k-1), 30) before retrying after the
\* k-th consecutive change stream failure (1, 2, 4, 8, 16, 30, 30, ...), the
\* delay always stays within 1..30, and a connected stream has the delay back
\* at 1, so that the next failure waits 1 again.
C30_PushBackoffDelay ==
    watch.pc \in PushPcs =>
        /\ watch.retry_delay \in 1..max_retry_delay
        /\ watch.pc = "backoff_stream" =>
              watch.retry_delay = Min(2 ^ (watch.failures - 1), max_retry_delay)
        /\ watch.pc = "streaming" => (watch.retry_delay = 1 /\ watch.failures = 0)

\* the sixth consecutive failure sleeps 30, not 32
C30_Witness ==
    /\ watch.pc = "backoff_stream"
    /\ watch.failures = 6
    /\ watch.retry_delay = max_retry_delay

\* C31: stop_watching() called while the watch task is streaming, sleeping
\* between polls or sleeping in a retry backoff makes the task terminate;
\* stop_watching() returns, it returns only when the task has finished, and no
\* callback is invoked after it has returned.
C31_StopWatchingStops ==
    /\ [](watch.stop = "returned" => (watch.pc = "none" /\ ~watch.cancel_req))
    /\ [][watch.stop = "returned" => delivered' = delivered]_vars
    /\ (watch.stop = "awaiting") ~> (watch.stop = "returned")

\* stop_watching() returned after cancelling a push-mode task in the retry sleep
\* that followed its second failure, after a command had been delivered
C31_Witness ==
    /\ watch.stop = "returned"
    /\ watch.ended = "cancelled"
    /\ watch.mode = "change_streams"
    /\ watch.failures = 2
    /\ Len(delivered) >= 1

\* the supervisor's _shutdown_event is set in this step
ShutdownSignalSet ==
    ~sup.shutdown_event /\ sup'.shutdown_event

\* the step is main()'s signal handler: nothing moves but the event
IsSignalHandler ==
    /\ sup' = [sup EXCEPT !.shutdown_event = TRUE]
    /\ UNCHANGED <<comp, mainpc, stop_pc>>

\* the step is a monitor pass that ends the monitor while a task has ended with
\* the restart-limit error
IsMonitorFatal ==
    /\ sup.monitor = "waiting" /\ sup'.monitor = "ended"
    /\ \E c \in Comps : comp[c].task = "fatal"
    /\ UNCHANGED <<comp, mainpc, stop_pc>>

\* the step is stop_all() beginning
IsStopAll ==
    mainpc = "wait_shutdown" /\ mainpc' # mainpc

\* C32: the supervisor's shutdown signal is set only by a monitor pass that found
\* a component's restart-limit failure, by the external signal handler or by
\* stop_all(); no step in which a component crashes within its restart budget or
\* returns cleanly sets it, and no monitor pass that finds only such components.
C32_ShutdownSignalSources ==
    /\ [][ShutdownSignalSet => (IsSignalHandler \/ IsMonitorFatal \/ IsStopAll)]_vars
    /\ [][(sup.monitor = "waiting" /\ sup'.monitor = "ended"
             /\ \A c \in Comps : comp[c].task # "fatal")
          => sup'.shutdown_event = sup.shutdown_event]_vars
    /\ [][\A c \in Comps :
            (comp[c].task = "run" /\ comp'[c].task \in {"backoff", "ok"})
            => sup' = sup]_vars

\* one component has returned cleanly, the other has crashed and been restarted
\* within its budget, the monitor is running and the signal is not set
C32_Witness ==
    /\ ~sup.shutdown_event
    /\ sup.monitor = "waiting"
    /\ mainpc = "wait_shutdown"
    /\ \E c, d \in Comps :
          /\ comp[c].task = "ok" /\ comp[c].state = "stopped"
          /\ comp[d].task = "run" /\ comp[d].restart_count = 1
             /\ comp[d].crash_count = 1

\* C33: the agent state becomes Stopped only from Stopping, on every path by
\* which run() ends: shutdown() from any source, or cancellation of the run()
\* task by the supervisor.
C33_StoppedOnlyFromStopping ==
    [][(agent.state # "stopped" /\ agent'.state = "stopped")
         => agent.state = "stopping"]_vars

\* C34: the control-file monitor applies a recognized command when the file
\* content differs from what it read at the previous poll and the command's
\* state precondition holds: with the file saying pause, the previous poll
\* having read something else, and the agent Running, the agent eventually
\* becomes Paused (unless the file changes first).
C34_ChangedFileIsApplied ==
    (/\ mon_pc = "polling"
     /\ StripLower(control_file) = "pause"
     /\ agent.file_read # "pause"
     /\ agent.state = "running")
        ~> (agent.state = "paused" \/ StripLower(control_file) # "pause")

\* C35: while the control file's content stays unchanged the monitor makes at
\* most one state transition for it: a step of the monitor that changes the
\* agent state (a state change that is not a counted pause()/resume() call of
\* another source) is never made from the content a poll already applied, so a
\* transition another source made afterwards is not undone by the file.
C35_SameContentAppliedOnce ==
    [][(agent'.state # agent.state /\ UNCHANGED <<eff_pause, eff_resume>>)
           => agent.file_applied # control_file]_vars

\* pause was applied from the file, another source resumed the agent, and a
\* later poll of the same content left the agent Running
C35_Witness ==
    /\ control_file = "PAUSE "
    /\ agent.file_applied = control_file
    /\ agent.file_skipped
    /\ agent.state = "running"
    /\ eff_resume >= 1

\* C36: when two coordinators run initialize() concurrently against a store
\* that holds no record, no initialize() call fails, and once both have
\* returned with only the initial record written, that record is (running,
\* version 1) and both coordinators' last-seen version is 1.
C36_ConcurrentInitializeBothSucceed ==
    /\ \A c \in Coords : coord[c].ipc # "failed"
    /\ (/\ writes.initial = 1
        /\ record.version = 1
        /\ \A c \in Coords : coord[c].ipc = "done")
           => /\ record.command = "running"
              /\ \A c \in Coords : coord[c].last_version = 1

\* C37: the cluster watch callback maps command pause to pause(), running to
\* resume() and shutdown to shutdown(); any other command text leaves the agent
\* state, the pause signal and the shutdown signal unchanged.
C37_CallbackMapping ==
    [][agent'.callback # agent.callback =>
         LET command == agent'.callback.command
             a == [agent EXCEPT !.callback = agent'.callback]
         IN  CASE command = "pause" -> agent' = pause(a)
               [] command = "running" -> agent' = resume(a)
               [] command = "shutdown" -> agent' = shutdown(a)
               [] OTHER -> /\ agent'.state = agent.state
                           /\ agent'.pause_event = agent.pause_event
                           /\ agent'.shutdown_event = agent.shutdown_event]_vars

\* the callback was called with an unknown command while the agent was Paused
\* by an earlier callback, and left it Paused
C37_Witness ==
    /\ agent.callback.command = "restart"
    /\ agent.state = "paused"
    /\ ~agent.pause_event
    /\ ~agent.shutdown_event
    /\ pc = "pause_wait"

\* process_batch() raised: the step of run() that leaves the batch with the
\* error count changed
BatchErrorStep ==
    /\ pc = "batch"
    /\ pc' # "batch"
    /\ agent'.errors_count # agent.errors_count

\* C38: an error raised by process_batch() never leaves the main loop: the error
\* count increases by exactly one, the agent state is unchanged, run() does not
\* fail, and the loop goes on to its sleep (which only a shutdown requested in
\* the meantime ends at once) and from there to the next iteration.
C38_BatchErrorAbsorbed ==
    [][BatchErrorStep =>
         /\ agent'.errors_count = agent.errors_count + 1
         /\ agent'.state = agent.state
         /\ agent'.shutdown_event = agent.shutdown_event
         /\ pc' = IF agent.shutdown_event
                  THEN (IF distributed /\ watch_pc = "watching"
                        THEN "cleanup_watch" ELSE "cleanup_hb")
                  ELSE "sleep"]_vars

\* after a batch error the loop is in a later iteration, processing a batch
C38_Witness ==
    /\ agent.errors_count = 1
    /\ pc = "batch"
    /\ agent.state = "running"
    /\ ~agent.shutdown_event

\* C39: the wait before a component's k-th restart (it has restarted k-1
\* times) is min(initial_backoff * backoff_multiplier^(k-1), max_backoff), and
\* the backoff of a started component grows by the multiplier on every restart
\* and is never reset, however the component ran in between.
C39_BackoffWait ==
    /\ [](\A c \in Comps :
             comp[c].task = "backoff" =>
                comp[c].wait_time =
                   Min(initial_backoff * backoff_multiplier ^ comp[c].restart_count,
                       max_backoff))
    /\ [][\A c \in Comps :
             comp[c].task \notin {"none", "created"} =>
                comp'[c].current_backoff =
                   IF comp'[c].restart_count = comp[c].restart_count
                   THEN comp[c].current_backoff
                   ELSE comp[c].current_backoff * backoff_multiplier]_vars

\* a component waits for its third restart, with the wait capped at max_backoff
C39_Witness ==
    \E c \in Comps :
       /\ comp[c].task = "backoff"
       /\ comp[c].restart_count = 2
       /\ comp[c].current_backoff > max_backoff
       /\ comp[c].wait_time = max_backoff

\* C40: a component's restart_count and crash_count never decrease, and a
\* crash, restart or stop of one supervised component leaves the state,
\* restart_count and crash_count of every other component unchanged.
C40_CountsMonotonicAndFramed ==
    [][\A c \in Comps :
          /\ comp'[c].restart_count >= comp[c].restart_count
          /\ comp'[c].crash_count >= comp[c].crash_count
          /\ (comp'[c] # comp[c] \/ stop_pc'[c] # stop_pc[c]) =>
                \A d \in Comps \ {c} :
                   /\ comp'[d].state = comp[d].state
                   /\ comp'[d].restart_count = comp[d].restart_count
                   /\ comp'[d].crash_count = comp[d].crash_count]_vars

\* one component crashed twice, restarted once and was stopped, while the other
\* one runs with no crash and no restart
C40_Witness ==
    \E c \in Comps : \E d \in Comps \ {c} :
       /\ comp[c].crash_count = 2
       /\ comp[c].restart_count = 1
       /\ stop_pc[c] = "returned"
       /\ comp[c].state = "stopped"
       /\ comp[d].state = "running"
       /\ comp[d].crash_count = 0
       /\ comp[d].restart_count = 0

====
